---------------------------- MODULE Spec2Model ----------------------------
(***************************************************************************)
(* A model of rust-i18n-autotranslate: the provider adapters' per-chunk    *)
(* deduplication (api/google_translate.rs, api/libre_translate.rs), the    *)
(* token-bucket limiter (utils/translation_limiter.rs), the autogen cache  *)
(* file (i18n/autogen_cache.rs), the locale-set reconciler (utils/mod.rs)  *)
(* and the orchestrator TranslationAPI::translate (lib.rs).                *)
(*                                                                         *)
(* Strings are sequences of symbols, so that trimming and entity decoding  *)
(* are computed and not assumed.  " " is a whitespace symbol and "&#32;"   *)
(* is an HTML entity that decodes to it.                                   *)
(***************************************************************************)
EXTENDS Integers, Sequences, FiniteSets, TLC

VARIABLES
    \* ---- one call of translate_v2 / translate_v1 (the chunk loop) ----
    source_data,   \* the input Vec<&str>
    chunk_ix,      \* index of the next chunk to send (1-based)
    requests,      \* the query lists sent so far, one per chunk
    responses,     \* the raw provider answers received so far, one per chunk
    translated,    \* the Vec<String> built so far
    call_state,    \* "off" | "running" | "ok" | "err"
    \* ---- SyncRateLimiter and its callers ----
    bucket,        \* TranslationLimiter: [tokens, last_update], tokens in
                   \* units of 1/TokenUnit token
    now,           \* Instant::now(), in seconds
    lock,          \* holder of the Mutex (a caller), or NoOne
    pc,            \* where each caller stands in run()/translate()
    wake,          \* end of each caller's thread::sleep
    todo,          \* calls each caller has still to issue
    cur,           \* each caller's call in progress: [no, waited]
    performed,     \* the calls performed (f() run), in order
    \* ---- TranslationAPI::translate and the files it works on ----
    dir,           \* the locale directory: file name -> file
    cache_file,    \* ./.autotranslate_gen.json
    config,        \* the Config of the run in progress (or of the last run)
    run_pc,        \* "idle" | "loop" (inside `for target_locale in ..`)
    autogen,       \* the run's Autogen value
    src_map,       \* source_data: the source locale's key -> text map
    tix,           \* index of the next target locale of the loop
    obs,           \* what the run in progress (or the last run) did
    prev,          \* what the run before it did
    runs,          \* number of runs started
    \* ---- one call of normalize_lang ----
    lang_provider, \* the TranslationProvider
    lang_code,     \* the tag passed in
    lang_result,   \* the Result returned
    lang_state,    \* "off" | "called" | "returned"
    \* ---- one call of deepl_translate::translate_v2 ----
    env_free,      \* env::var("DEEPL_FREE_API_KEY")
    env_pro,       \* env::var("DEEPL_PRO_API_KEY")
    key_url,       \* what get_key_url returned: [key, url]
    item_ix,       \* index of the next item of the keyless loop (1-based)
    keyless_cache  \* mem_cache of the keyless loop: string -> translation

adapterVars ==
    <<source_data, chunk_ix, requests, responses, translated, call_state>>
limiterVars == <<bucket, now, lock, pc, wake, todo, cur, performed>>
runVars ==
    <<dir, cache_file, config, run_pc, autogen, src_map, tix, obs, prev, runs>>
langVars == <<lang_provider, lang_code, lang_result, lang_state>>
keyVars == <<env_free, env_pro, key_url, item_ix, keyless_cache>>
vars == <<adapterVars, limiterVars, runVars, langVars, keyVars>>

-----------------------------------------------------------------------------
(* Bounds of the model *)

\* stands for the 120 of chunks(120): the chunk size, scaled down
ChunkSize == 2
\* longest input handed to one translate_v2 call in the adapter specification
MaxInput == 4
\* stands for max_burst = 80: the bucket's capacity, scaled down
MaxBurst == 2
\* most calls one caller issues through the limiter
MaxCalls == 6
\* most runs of translate in one history
MaxRuns == 3
\* how many seconds longer than asked a thread::sleep may last
MaxOversleep == 1
MaxThreadCalls == 2
\* most pieces a language tag is put together from
MaxTagParts == 3
\* the latest second at which time still passes while no caller sleeps
MaxTime == 8

-----------------------------------------------------------------------------
(* Strings *)

EmptyStr == <<>>
WS == " "
Entity == "&#32;"

\* source texts a locale may hold
Texts == {<<"a">>, <<"b">>}

Min(a, b) == IF a <= b THEN a ELSE b
Max(a, b) == IF a >= b THEN a ELSE b

\* html_escape::decode_html_entities
DecodeHtml(s) == [i \in 1..Len(s) |-> IF s[i] = Entity THEN WS ELSE s[i]]

RECURSIVE TrimStart(_)
TrimStart(s) == IF s # <<>> /\ Head(s) = WS THEN TrimStart(Tail(s)) ELSE s

RECURSIVE TrimEnd(_)
TrimEnd(s) ==
    IF s # <<>> /\ s[Len(s)] = WS THEN TrimEnd(SubSeq(s, 1, Len(s) - 1)) ELSE s

\* str::trim
Trim(s) == TrimEnd(TrimStart(s))

\* no adapter call in progress
AdapterOff ==
    /\ source_data = <<>>
    /\ chunk_ix = 1
    /\ requests = <<>>
    /\ responses = <<>>
    /\ translated = <<>>
    /\ call_state = "off"

-----------------------------------------------------------------------------
(* The token bucket: TranslationLimiter and SyncRateLimiter                 *)
(* (utils/translation_limiter.rs, and its copy in api/libre_translate.rs)   *)

\* tokens are counted in units of 1/TokenUnit token, and tokens_per_sec =
\* 20.0 / 60.0 adds one unit per second
TokenUnit == 3

Callers == {1, 2}
NoOne == 0

\* TranslationLimiter::new(): the bucket starts full
NewLimiter(at) == [tokens |-> MaxBurst * TokenUnit, last_update |-> at]

\* a refill without the cap
RefilledNoCap(b, at) == b.tokens + (at - b.last_update)

\* guard.tokens = (guard.tokens + elapsed * tokens_per_sec).min(max_burst)
Refilled(b, at) ==
    Min(b.tokens + (at - b.last_update), MaxBurst * TokenUnit)

\* a limiter that forgets to deduct the token
TakeTokenNoDeduct(tokens) == tokens

\* a limiter that deducts a third of a token
TakeTokenThird(tokens) == tokens - 1

\* guard.tokens -= 1.0
TakeToken(tokens) == tokens - TokenUnit

\* a wait of one second, whatever the bucket holds
WaitTimeOneSecond(tokens) == 1

\* (1.0 - guard.tokens) / guard.tokens_per_sec, in seconds
WaitTime(tokens) == TokenUnit - tokens

\* no limiter in use
LimiterOff ==
    /\ bucket = NewLimiter(0)
    /\ now = 0
    /\ lock = NoOne
    /\ pc = [c \in Callers |-> "done"]
    /\ wake = [c \in Callers |-> 0]
    /\ todo = [c \in Callers |-> 0]
    /\ cur = [c \in Callers |-> [no |-> 0, waited |-> 0]]
    /\ performed = <<>>

\* self.0.lock().unwrap() on entry
Lock(c) ==
    /\ pc[c] = "start"
    /\ lock = NoOne
    /\ lock' = c
    /\ pc' = [pc EXCEPT ![c] = "loop"]
    /\ cur' = [cur EXCEPT ![c] = [no |-> @.no + 1, waited |-> 0]]
    /\ UNCHANGED <<bucket, now, wake, todo, performed, adapterVars, runVars, langVars, keyVars>>

\* a variant whose guard is released as soon as the token is taken
AcquireThenUnlock(c) ==
    /\ pc[c] = "loop"
    /\ lock = c
    /\ LET tokens == Refilled(bucket, now)
       IN IF tokens >= TokenUnit
          THEN /\ bucket' = [tokens |-> TakeToken(tokens), last_update |-> now]
               /\ pc' = [pc EXCEPT ![c] = "call"]
               /\ lock' = NoOne
               /\ UNCHANGED <<wake, cur>>
          ELSE /\ bucket' = [tokens |-> tokens, last_update |-> now]
               /\ lock' = NoOne
               /\ wake' = [wake EXCEPT ![c] = now + WaitTime(tokens)]
               /\ cur' = [cur EXCEPT ![c].waited = @ + WaitTime(tokens)]
               /\ pc' = [pc EXCEPT ![c] = "sleep"]
    /\ UNCHANGED <<now, todo, performed, adapterVars, runVars, langVars, keyVars>>

\* a variant that sleeps with the guard held
AcquireSleepLocked(c) ==
    /\ pc[c] = "loop"
    /\ lock = c
    /\ LET tokens == Refilled(bucket, now)
       IN IF tokens >= TokenUnit
          THEN /\ bucket' = [tokens |-> TakeToken(tokens), last_update |-> now]
               /\ pc' = [pc EXCEPT ![c] = "call"]
               /\ UNCHANGED <<lock, wake, cur>>
          ELSE /\ bucket' = [tokens |-> tokens, last_update |-> now]
               /\ wake' = [wake EXCEPT ![c] = now + WaitTime(tokens)]
               /\ cur' = [cur EXCEPT ![c].waited = @ + WaitTime(tokens)]
               /\ pc' = [pc EXCEPT ![c] = "sleep"]
               /\ UNCHANGED lock
    /\ UNCHANGED <<now, todo, performed, adapterVars, runVars, langVars, keyVars>>

\* one pass of the loop: refill for the elapsed time, then either take a
\* token and leave the loop, or compute the wait, drop the guard and sleep
Acquire(c) ==
    /\ pc[c] = "loop"
    /\ lock = c
    /\ LET tokens == Refilled(bucket, now)
       IN IF tokens >= TokenUnit
          THEN /\ bucket' = [tokens |-> TakeToken(tokens), last_update |-> now]
               /\ pc' = [pc EXCEPT ![c] = "call"]
               /\ UNCHANGED <<lock, wake, cur>>
          ELSE /\ bucket' = [tokens |-> tokens, last_update |-> now]
               /\ lock' = NoOne
               /\ wake' = [wake EXCEPT ![c] = now + WaitTime(tokens)]
               /\ cur' = [cur EXCEPT ![c].waited = @ + WaitTime(tokens)]
               /\ pc' = [pc EXCEPT ![c] = "sleep"]
    /\ UNCHANGED <<now, todo, performed, adapterVars, runVars, langVars, keyVars>>

\* time passes while a caller sleeps
SleepTick ==
    /\ \E c \in Callers : pc[c] = "sleep" /\ now < wake[c] + MaxOversleep
    /\ now' = now + 1
    /\ UNCHANGED <<bucket, lock, pc, wake, todo, cur, performed, adapterVars, runVars, langVars, keyVars>>

\* time passes while no caller sleeps: between two calls of a caller, while
\* a caller waits for the Mutex, or while f() runs
IdleTick ==
    /\ \A c \in Callers : pc[c] # "sleep"
    /\ now < MaxTime
    /\ now' = now + 1
    /\ UNCHANGED <<bucket, lock, pc, wake, todo, cur, performed, adapterVars, runVars, langVars, keyVars>>

\* std::thread::sleep(wait_time) returns, not before the time asked
Wake(c) ==
    /\ pc[c] = "sleep"
    /\ now >= wake[c]
    /\ pc' = [pc EXCEPT ![c] = "relock"]
    /\ UNCHANGED <<bucket, now, lock, wake, todo, cur, performed, adapterVars, runVars, langVars, keyVars>>

\* guard = self.0.lock().unwrap() after the sleep
Relock(c) ==
    /\ pc[c] = "relock"
    /\ lock = NoOne
    /\ lock' = c
    /\ pc' = [pc EXCEPT ![c] = "loop"]
    /\ UNCHANGED <<bucket, now, wake, todo, cur, performed, adapterVars, runVars, langVars, keyVars>>

\* f() / ureq::post(..).send_json(..) runs with the guard held; the guard is
\* dropped when the function returns
Perform(c) ==
    /\ pc[c] = "call"
    /\ lock = c
    /\ performed' = Append(performed, [caller |-> c, no |-> cur[c].no,
                                       waited |-> cur[c].waited])
    /\ lock' = NoOne
    /\ todo' = [todo EXCEPT ![c] = @ - 1]
    /\ pc' = [pc EXCEPT ![c] = IF todo[c] > 1 THEN "start" ELSE "done"]
    /\ UNCHANGED <<bucket, now, wake, cur, adapterVars, runVars, langVars, keyVars>>


-----------------------------------------------------------------------------
(* The chunk loop of translate_v2 (Google, keyed) and translate_v1 (Libre) *)

\* a variant that takes every chunk from the start of the input
ChunkOfFromStart(data, n, c) ==
    SubSeq(data, 1, Min(n, Len(data) - (c - 1) * n))

\* source_data.chunks(n): the number of chunks and the c-th chunk
NumChunks(data, n) == (Len(data) + n - 1) \div n
ChunkOf(data, n, c) == SubSeq(data, (c - 1) * n + 1, Min(c * n, Len(data)))

\* mem_cache after the query loop: distinct string -> the chunk positions
\* (0-based, ascending) that hold it
MemCache(chunk) ==
    [q \in {chunk[i] : i \in 1..Len(chunk)} |->
        LET idxs == {i \in 1..Len(chunk) : chunk[i] = q}
            RECURSIVE Asc(_)
            Asc(S) == IF S = {} THEN <<>>
                      ELSE LET m == CHOOSE x \in S : \A y \in S : x <= y
                           IN <<m - 1>> \o Asc(S \ {m})
        IN Asc(idxs)]

\* a variant that sends every string in full
QueryOfInFull(chunk) == chunk

\* qry_pairs / qry_text: a string already in mem_cache is sent as ""
QueryOf(chunk) ==
    [i \in 1..Len(chunk) |->
        IF \E j \in 1..(i - 1) : chunk[j] = chunk[i] THEN EmptyStr ELSE chunk[i]]

\* a variant of the response loop that pushes nothing for a blank result
PushedForSkipBlank(mem_cache, resp, idx) ==
    LET decoded == Trim(DecodeHtml(resp[idx + 1]))
    IN IF decoded # EmptyStr THEN <<decoded>> ELSE <<>>

\* what the response loop pushes for response position idx (0-based):
\* a sequence of zero or one strings
PushedFor(mem_cache, resp, idx) ==
    LET decoded == Trim(DecodeHtml(resp[idx + 1]))
        groups  == {q \in DOMAIN mem_cache :
                       \E p \in 1..Len(mem_cache[q]) : mem_cache[q][p] = idx}
    IN IF decoded # EmptyStr THEN <<decoded>>
       ELSE IF groups = {} THEN <<>>
       ELSE LET mem_val  == mem_cache[CHOOSE q \in groups : TRUE]
                pos      == CHOOSE p \in 1..Len(mem_val) : mem_val[p] = idx
                init_pos == mem_val[1]
            IN IF pos > 1
               THEN IF init_pos + 1 <= Len(resp)
                    THEN <<DecodeHtml(resp[init_pos + 1])>>
                    ELSE <<decoded>>
               ELSE <<decoded>>

RECURSIVE ProcessFrom(_, _, _)
ProcessFrom(mem_cache, resp, idx) ==
    IF idx >= Len(resp) THEN <<>>
    ELSE PushedFor(mem_cache, resp, idx) \o ProcessFrom(mem_cache, resp, idx + 1)

\* the strings one chunk's response appends to `translated`
ProcessResponse(chunk, resp) == ProcessFrom(MemCache(chunk), resp, 0)

-----------------------------------------------------------------------------
(* The provider, seen from the adapter *)

\* target language of the adapter specification's single call
Lang == "fr"

\* the provider's translation of a request item into language t
\* ("" translates to "")
Translation(t, q) == IF q = EmptyStr THEN EmptyStr ELSE <<t>> \o q

\* the raw texts a provider may answer for one request item: the bare
\* translation, the translation with surrounding whitespace (plain or as an
\* entity), or nothing at all
RawAnswers(t, q) ==
    IF q = EmptyStr THEN {EmptyStr, <<WS>>}
    ELSE {Translation(t, q), <<WS>> \o Translation(t, q),
          Translation(t, q) \o <<Entity>>, EmptyStr}

\* all sequences that answer each item of qry with one of its raw answers
RECURSIVE AnswersTo(_, _)
AnswersTo(t, qry) ==
    IF qry = <<>> THEN {<<>>}
    ELSE {<<r>> \o rest : r \in RawAnswers(t, Head(qry)),
                          rest \in AnswersTo(t, Tail(qry))}

\* a well-formed body may still hold one item too few or one too many
ProviderBodies(t, qry) ==
    LET exact == AnswersTo(t, qry)
    IN exact
       \cup {SubSeq(r, 1, Len(r) - 1) : r \in {x \in exact : Len(x) > 0}}
       \cup {Append(r, Translation(t, <<"x">>)) : r \in exact}

\* transport error, non-200 status or undecodable body
Failure == [ok |-> FALSE, body |-> <<>>]

\* everything one request may come back with
ProviderReplies(t, qry) ==
    {[ok |-> TRUE, body |-> b] : b \in ProviderBodies(t, qry)} \cup {Failure}

\* all inputs of one adapter call
RECURSIVE SeqsUpTo(_, _)
SeqsUpTo(S, n) ==
    IF n = 0 THEN {<<>>}
    ELSE LET shorter == SeqsUpTo(S, n - 1)
         IN shorter \cup {Append(x, e) : x \in {y \in shorter : Len(y) = n - 1},
                                         e \in S}

Inputs == SeqsUpTo(Texts, MaxInput)

\* one iteration of `for chunk in chunks`: build the query, call the
\* provider, then either return the error or push the chunk's results
SendChunk ==
    /\ call_state = "running"
    /\ chunk_ix <= NumChunks(source_data, ChunkSize)
    /\ LET chunk == ChunkOf(source_data, ChunkSize, chunk_ix)
           qry   == QueryOf(chunk)
       IN \E resp \in ProviderReplies(Lang, qry) :
            /\ requests' = Append(requests, qry)
            /\ responses' = Append(responses, resp)
            /\ IF ~resp.ok
               THEN /\ call_state' = "err"
                    /\ UNCHANGED <<translated, chunk_ix>>
               ELSE /\ translated' =
                         translated \o ProcessResponse(chunk, resp.body)
                    /\ chunk_ix' = chunk_ix + 1
                    /\ UNCHANGED call_state
    /\ UNCHANGED <<source_data, limiterVars, runVars, langVars, keyVars>>

\* Ok(translated) after the last chunk
ReturnOk ==
    /\ call_state = "running"
    /\ chunk_ix > NumChunks(source_data, ChunkSize)
    /\ call_state' = "ok"
    /\ UNCHANGED <<source_data, chunk_ix, requests, responses, translated>>
    /\ UNCHANGED <<limiterVars, runVars, langVars, keyVars>>


-----------------------------------------------------------------------------
(* utils/languages.rs: normalize_lang and normalize.  A language tag is a  *)
(* sequence of characters.                                                  *)

LowerCase ==
    << "a", "b", "c", "d", "e", "f", "g", "h", "i", "j", "k", "l", "m",
       "n", "o", "p", "q", "r", "s", "t", "u", "v", "w", "x", "y", "z" >>
UpperCase ==
    << "A", "B", "C", "D", "E", "F", "G", "H", "I", "J", "K", "L", "M",
       "N", "O", "P", "Q", "R", "S", "T", "U", "V", "W", "X", "Y", "Z" >>

\* char::to_uppercase / to_lowercase on one character
UpperOf(ch) ==
    IF \E i \in 1..Len(LowerCase) : LowerCase[i] = ch
    THEN UpperCase[CHOOSE i \in 1..Len(LowerCase) : LowerCase[i] = ch]
    ELSE ch
LowerOf(ch) ==
    IF \E i \in 1..Len(UpperCase) : UpperCase[i] = ch
    THEN LowerCase[CHOOSE i \in 1..Len(UpperCase) : UpperCase[i] = ch]
    ELSE ch

\* str::to_uppercase / to_lowercase
ToUppercase(w) == [i \in 1..Len(w) |-> UpperOf(w[i])]
ToLowercase(w) == [i \in 1..Len(w) |-> LowerOf(w[i])]

\* the allow-lists, each a sample of the source's list in the source's order
GOOGLE_TRANSLATE_LANG_CODES ==
    << <<"a", "c", "h">>, <<"z", "h", "-", "C", "N">>, <<"z", "h">>,
       <<"z", "h", "-", "T", "W">>, <<"e", "n">>, <<"f", "r">>,
       <<"f", "r", "-", "F", "R">>, <<"d", "e">>, <<"h", "t">>,
       <<"h", "e">>,
       <<"p", "t", "-", "B", "R">>, <<"t", "h">> >>
DEEPL_LANG_CODES ==
    << <<"D", "E">>, <<"E", "N">>, <<"E", "N", "-", "G", "B">>,
       <<"E", "N", "-", "U", "S">>, <<"F", "R">>, <<"H", "E">>,
       <<"H", "T">>, <<"P", "T">>, <<"P", "T", "-", "B", "R">>,
       <<"T", "H">>, <<"Z", "H">>, <<"Z", "H", "-", "H", "A", "N", "S">>,
       <<"Z", "H", "-", "H", "A", "N", "T">> >>
LIBRE_TRANSLATE_LANG_CODES ==
    << <<"e", "n">>, <<"z", "h", "-", "H", "a", "n", "s">>,
       <<"z", "h", "-", "H", "a", "n", "t">>, <<"f", "r">>, <<"d", "e">>,
       <<"h", "e">>, <<"p", "t">>, <<"p", "t", "-", "B", "R">>, <<"t", "h">> >>

AllProviders == {"GOOGLE", "DEEPL", "LIBRETRANSLATE"}

CodesOf(provider) ==
    CASE provider = "GOOGLE" -> GOOGLE_TRANSLATE_LANG_CODES
      [] provider = "DEEPL"  -> DEEPL_LANG_CODES
      [] OTHER               -> LIBRE_TRANSLATE_LANG_CODES

\* codes.contains(&locale)
InList(codes, w) == \E i \in 1..Len(codes) : codes[i] = w

\* str::contains: w occurs in x as a substring
ContainsStr(x, w) ==
    \E i \in 0..(Len(x) - Len(w)) : SubSeq(x, i + 1, i + Len(w)) = w

\* locale.split("-").first(): the text before the first '-'
FirstPart(w) ==
    IF \E i \in 1..Len(w) : w[i] = "-"
    THEN SubSeq(w, 1, (CHOOSE i \in 1..Len(w) :
                          w[i] = "-" /\ \A j \in 1..(i - 1) : w[j] # "-") - 1)
    ELSE w

Unsupported == [ok |-> FALSE, code |-> <<>>]

\* a variant that returns the code in upper case
SupportedUpper(code) == [ok |-> TRUE, code |-> ToUppercase(code)]

Supported(code) == [ok |-> TRUE, code |-> code]

\* a variant whose fallback takes the last matching code of the list
NormalizeLastHit(locale, codes) ==
    IF InList(codes, locale) THEN Supported(locale)
    ELSE LET first == FirstPart(locale)
             hits  == {i \in 1..Len(codes) : ContainsStr(codes[i], first)}
         IN IF hits # {}
            THEN Supported(codes[CHOOSE i \in hits : \A j \in hits : i >= j])
            ELSE Unsupported

\* normalize: exact match, else the first code containing the first part
Normalize(locale, codes) ==
    IF InList(codes, locale) THEN Supported(locale)
    ELSE LET first == FirstPart(locale)
             hits  == {i \in 1..Len(codes) : ContainsStr(codes[i], first)}
         IN IF hits # {}
            THEN Supported(codes[CHOOSE i \in hits : \A j \in hits : i <= j])
            ELSE Unsupported

\* normalize_lang: only DeepL's tag is case-converted
NormalizeLang(provider, tag) ==
    IF provider = "DEEPL"
    THEN Normalize(ToUppercase(tag), DEEPL_LANG_CODES)
    ELSE Normalize(tag, CodesOf(provider))

\* the pieces language tags are put together from
TagParts ==
    { <<"z", "h">>,
      <<"Z", "H">>,
      <<"e", "n">>,
      <<"E", "N">>,
      <<"f", "r">>,
      <<"-">>,
      <<"T", "W">>,
      <<"g", "b">>,
      <<"H", "a", "n", "s">>,
      <<"h">>,
      <<"x", "x">>,
      <<"y", "y">>,
      <<"B", "R">> }

RECURSIVE TagsUpTo(_)
TagsUpTo(n) ==
    IF n = 0 THEN {<<>>}
    ELSE LET shorter == TagsUpTo(n - 1)
         IN shorter \cup {w \o a : w \in shorter, a \in TagParts}

Tags == TagsUpTo(MaxTagParts)

\* no normalize_lang call
LangOff ==
    /\ lang_provider = "GOOGLE"
    /\ lang_code = <<>>
    /\ lang_result = Unsupported
    /\ lang_state = "off"

\* normalize_lang(provider, lang_code) returns
NormalizeCall ==
    /\ lang_state = "called"
    /\ lang_result' = NormalizeLang(lang_provider, lang_code)
    /\ lang_state' = "returned"
    /\ UNCHANGED <<lang_provider, lang_code, adapterVars, limiterVars, runVars>>
    /\ UNCHANGED keyVars

-----------------------------------------------------------------------------
(* api/deepl_translate.rs: get_key_url and the choice of the path           *)

\* env::var(..).ok(): None when the variable is not set
NotSet == [set |-> FALSE, val |-> <<>>]
SetTo(v) == [set |-> TRUE, val |-> v]

\* the values the two variables may have: not set, empty, a key
FreeValues == {NotSet, SetTo(<<>>), SetTo(<<"free-key">>)}
ProValues == {NotSet, SetTo(<<>>), SetTo(<<"pro-key">>)}

\* format!("DeepL-Auth-Key {key}")
AuthHeader(k) == <<"DeepL-Auth-Key ">> \o k

NoKey == [some |-> FALSE, key |-> <<>>]
SomeKey(k) == [some |-> TRUE, key |-> k]

\* a variant of get_key_url that prefers the pro key when both are given
GetKeyUrlProFirst(free, pro) ==
    IF pro.set /\ pro.val # <<>>
    THEN [key |-> SomeKey(AuthHeader(pro.val)), url |-> "pro_api_url"]
    ELSE IF free.set /\ free.val # <<>>
    THEN [key |-> SomeKey(AuthHeader(free.val)), url |-> "free_api_url"]
    ELSE [key |-> NoKey, url |-> "web_url"]

\* get_key_url: the match on (free_api_key, pro_api_key), arm by arm
GetKeyUrl(free, pro) ==
    CASE ~free.set /\ ~pro.set -> [key |-> NoKey, url |-> "web_url"]
      [] ~free.set /\ pro.set ->
            IF pro.val = <<>>
            THEN [key |-> NoKey, url |-> "web_url"]
            ELSE [key |-> SomeKey(AuthHeader(pro.val)), url |-> "pro_api_url"]
      [] free.set /\ ~pro.set ->
            IF free.val = <<>>
            THEN [key |-> NoKey, url |-> "web_url"]
            ELSE [key |-> SomeKey(AuthHeader(free.val)), url |-> "free_api_url"]
      [] free.set /\ pro.set ->
            CASE free.val # <<>> /\ pro.val # <<>> ->
                    [key |-> SomeKey(AuthHeader(free.val)), url |-> "free_api_url"]
              [] free.val # <<>> /\ pro.val = <<>> ->
                    [key |-> SomeKey(AuthHeader(free.val)), url |-> "free_api_url"]
              [] free.val = <<>> /\ pro.val # <<>> ->
                    [key |-> SomeKey(AuthHeader(pro.val)), url |-> "pro_api_url"]
              [] OTHER -> [key |-> NoKey, url |-> "web_url"]

\* `if let Some(key) = api_key && !key.is_empty()`: the chunk loop with the
\* key, else the keyless loop
TakesKeyedPath(ku) == ku.key.some /\ ku.key.key # <<>>

\* no DeepL call in progress
KeyOff ==
    /\ env_free = NotSet
    /\ env_pro = NotSet
    /\ key_url = [key |-> NoKey, url |-> "none"]
    /\ item_ix = 1
    /\ keyless_cache = <<>>

-----------------------------------------------------------------------------
(* Files: the locale directory and ./.autotranslate_gen.json                *)

SourceLocale == "en"
TargetLangs == {"fr", "de"}
Stems == {SourceLocale} \cup TargetLangs

\* a locale name that no provider's list resolves
OtherLang == "xx"

\* the characters of a locale name
TagOf(l) ==
    CASE l = "en" -> <<"e", "n">>
      [] l = "fr" -> <<"f", "r">>
      [] l = "de" -> <<"d", "e">>
      [] OTHER    -> <<"x", "x">>

\* the names a file of the locale directory may have: <<stem, extension>>;
\* the source locale is kept in en.json
TargetNames == TargetLangs \X {"json", "yml"}
FileNames ==
    {<<SourceLocale, "json">>} \cup TargetNames \cup {<<OtherLang, "json">>}

\* the keys of a locale, in the order a BTreeMap iterates them
KeyOrder == <<"_version", "k1", "k2", "k3">>
Keys == {KeyOrder[i] : i \in 1..Len(KeyOrder)}

EmptyMap == [x \in {} |-> <<>>]

\* the keys of map m in BTreeMap order
SortedKeys(m) == SelectSeq(KeyOrder, LAMBDA k : k \in DOMAIN m)

RECURSIVE SumOver(_, _)
SumOver(S, f) ==
    IF S = {} THEN 0
    ELSE LET x == CHOOSE y \in S : TRUE IN f[x] + SumOver(S \ {x}, f)

\* a file: absent, or a length and the value its bytes parse to; a write
\* that opens without truncate keeps the old length when the new bytes are
\* fewer, and the bytes then no longer parse (`val` is the empty value)
NoFile(empty) == [there |-> FALSE, val |-> empty, len |-> 0]

\* OpenOptions::new().create(true).write(true).open(..) followed by a write
\* of `size` bytes serializing v: the bytes past the new end stay
WriteOver(old, v, size, empty) ==
    LET n == Max(IF old.there THEN old.len ELSE 0, size)
    IN [there |-> TRUE, val |-> IF n = size THEN v ELSE empty, len |-> n]

\* serialized length of a flat key -> text map (serde_json / dot_to_json)
SizeKv(kv) == 2 + SumOver(DOMAIN kv, [k \in DOMAIN kv |-> 2 + Len(kv[k])])

\* whether the bytes of a locale file parse to a map
ParsesKv(f) == f.there /\ f.len = SizeKv(f.val)

-----------------------------------------------------------------------------
(* Autogen: the translation cache (i18n/autogen_cache.rs) *)

None == [some |-> FALSE, sha |-> EmptyMap]
Some(h) == [some |-> TRUE, sha |-> h]

\* Autogen::default()
DefaultAutogen == [sha256 |-> None, data |-> EmptyMap]

\* serialized length of the cache (serde_json::to_writer)
SizeAutogen(a) ==
    2 + (IF a.sha256.some THEN 2 ELSE 1)
      + SumOver(DOMAIN a.data,
           [l \in DOMAIN a.data |->
               2 + SumOver(DOMAIN a.data[l],
                      [q \in DOMAIN a.data[l] |->
                          2 + Len(q) + Len(a.data[l][q])])])

\* serde_json::from_reader::<_, Autogen>: fails on an empty file and on
\* trailing bytes
ParsesAutogen(f) == f.there /\ f.len = SizeAutogen(f.val)

\* a variant that starts from the default cache whatever the file holds
LoadAutogenFresh(f) ==
    [autogen |-> DefaultAutogen,
     file |-> IF f.there THEN f
              ELSE [there |-> TRUE, val |-> DefaultAutogen, len |-> 0]]

\* load_autogen: [the cache read, the file afterwards]; File::create_new
\* leaves an empty file behind when there was none
LoadAutogen(f) ==
    IF ~f.there
    THEN [autogen |-> DefaultAutogen,
          file |-> [there |-> TRUE, val |-> DefaultAutogen, len |-> 0]]
    ELSE [autogen |-> IF ParsesAutogen(f) THEN f.val ELSE DefaultAutogen,
          file |-> f]

\* a variant in which the cache is not written
UpdateAutogenCacheSkipped(f, a) == f

\* update_autogen_cache: the file afterwards
UpdateAutogenCache(f, a) == WriteOver(f, a, SizeAutogen(a), DefaultAutogen)

\* sha256::try_digest of a file's bytes
Sha256(f) == f.val

\* map m without key k
MapRemove(m, k) == [x \in DOMAIN m \ {k} |-> m[x]]
\* map m with k -> v inserted
MapInsert(m, k, v) == [x \in DOMAIN m \cup {k} |-> IF x = k THEN v ELSE m[x]]

-----------------------------------------------------------------------------
(* utils/mod.rs: get_source_file_path, verify_locales, write_locale_file *)

\* a variant that takes any file of the directory for the source file
SourcePathAny(d, source_locale) == {n \in FileNames : d[n].there}

\* get_source_file_path: the file whose stem is the source locale
SourcePath(d, source_locale) ==
    {n \in FileNames : n[1] = source_locale /\ d[n].there}

\* a variant that compares file stems only, so {t}.{other ext} is kept
StaleFilesByStem(d, source_name, targets) ==
    {n \in FileNames :
        /\ d[n].there
        /\ n # source_name
        /\ n[1] \notin targets}

\* the files verify_locales removes: neither {t}.{ext} of a target nor the
\* source file
StaleFiles(d, source_name, targets) ==
    {n \in FileNames :
        /\ d[n].there
        /\ n # source_name
        /\ ~(n[2] = source_name[2] /\ n[1] \in targets)}

\* per removed file: load_autogen, remove the file stem's entry, write back
RECURSIVE PruneCache(_, _)
PruneCache(f, stale) ==
    IF stale = {} THEN f
    ELSE LET n      == CHOOSE x \in stale : TRUE
             loaded == LoadAutogen(f)
             pruned == [loaded.autogen EXCEPT
                           !.data = MapRemove(@, n[1])]
         IN PruneCache(UpdateAutogenCache(loaded.file, pruned), stale \ {n})

\* verify_locales: the directory and the cache file afterwards, and the
\* result: "ok", "mismatch" (Err: a target's file is absent) or "nosource"
VerifyLocales(d, f, source_locale, targets) ==
    IF SourcePath(d, source_locale) = {}
    THEN [dir |-> d, cache |-> f, result |-> "nosource"]
    ELSE LET src   == CHOOSE n \in SourcePath(d, source_locale) : TRUE
             stale == StaleFiles(d, src, targets)
             kept  == [n \in FileNames |->
                          IF n \in stale THEN NoFile(EmptyMap) ELSE d[n]]
         IN [dir |-> kept,
             cache |-> PruneCache(f, stale),
             result |-> IF \E t \in targets : ~kept[<<t, src[2]>>].there
                        THEN "mismatch" ELSE "ok"]

\* a variant that reports a difference only against a stored checksum
IsMatchSha256IfStored(d, source_locale, autogen_sha) ==
    IF SourcePath(d, source_locale) = {} THEN None
    ELSE LET sha == Some(Sha256(d[CHOOSE n \in SourcePath(d, source_locale) : TRUE]))
         IN IF autogen_sha.some /\ autogen_sha # sha THEN sha ELSE None

\* a variant that returns the digest whenever the source file is found
IsMatchSha256Always(d, source_locale, autogen_sha) ==
    IF SourcePath(d, source_locale) = {} THEN None
    ELSE Some(Sha256(d[CHOOSE n \in SourcePath(d, source_locale) : TRUE]))

\* is_match_sha256 / match_sha256: Some(new digest) when the source file is
\* found and its digest differs from the stored one, None otherwise
IsMatchSha256(d, source_locale, autogen_sha) ==
    IF SourcePath(d, source_locale) = {} THEN None
    ELSE LET sha == Some(Sha256(d[CHOOSE n \in SourcePath(d, source_locale) : TRUE]))
         IN IF autogen_sha # sha THEN sha ELSE None

\* write_locale_file: the directory afterwards ({target}.{ext} created or
\* written over, without truncate); unchanged when no source file is found
WriteLocaleFile(d, kv, source_locale, target) ==
    IF SourcePath(d, source_locale) = {} THEN d
    ELSE LET src  == CHOOSE n \in SourcePath(d, source_locale) : TRUE
             name == <<target, src[2]>>
         IN [d EXCEPT ![name] = WriteOver(d[name], kv, SizeKv(kv), EmptyMap)]

-----------------------------------------------------------------------------
(* api/mod.rs translate_data and the adapters, as the orchestrator calls them *)

Providers == {"GOOGLE", "LIBRETRANSLATE"}

\* how the provider answers the requests of one translate_data call: every
\* item translated; every translation with a leading blank; one item too
\* few; the request fails; or the first request is answered and the later
\* ones fail
Modes == {"plain", "padded", "short", "fail", "late"}

ReplyIn(mode, t, qry) ==
    LET plain  == [i \in 1..Len(qry) |-> Translation(t, qry[i])]
        padded == [i \in 1..Len(qry) |->
                      IF qry[i] = EmptyStr THEN EmptyStr
                      ELSE <<WS>> \o Translation(t, qry[i])]
    IN CASE mode = "plain"  -> [ok |-> TRUE, body |-> plain]
         [] mode = "padded" -> [ok |-> TRUE, body |-> padded]
         [] mode = "short"  ->
                [ok |-> TRUE, body |-> SubSeq(plain, 1, Len(plain) - 1)]
         [] OTHER           -> Failure

\* a provider whose bodies are well-formed but of the wrong length: one item
\* too many for the first, third, .. request of a call and one item too few
\* for the second, fourth, ..
ShiftedModes == {"shifted"}

\* the provider's answer to the request built from chunk c
ReplyTo(mode, c, t, qry) ==
    IF mode = "late"
    THEN IF c = 1 THEN ReplyIn("plain", t, qry) ELSE Failure
    ELSE IF mode = "shifted"
    THEN LET plain == ReplyIn("plain", t, qry).body
         IN [ok |-> TRUE,
             body |-> IF c % 2 = 1 THEN Append(plain, Translation(t, <<"x">>))
                      ELSE SubSeq(plain, 1, Len(plain) - 1)]
    ELSE ReplyIn(mode, t, qry)

\* a variant that goes on to the next chunk after a failed request
RECURSIVE ChunkLoopGoesOn(_, _, _, _)
ChunkLoopGoesOn(data, c, t, mode) ==
    IF c > NumChunks(data, ChunkSize)
    THEN [ok |-> TRUE, out |-> <<>>, sent |-> {}, nreq |-> 0, calls |-> <<>>]
    ELSE LET chunk == ChunkOf(data, ChunkSize, c)
             qry   == QueryOf(chunk)
             items == {qry[i] : i \in 1..Len(qry)} \ {EmptyStr}
             reply == ReplyTo(mode, c, t, qry)
             rest  == ChunkLoopGoesOn(data, c + 1, t, mode)
         IN [ok   |-> reply.ok /\ rest.ok,
             out  |-> IF reply.ok /\ rest.ok
                      THEN ProcessResponse(chunk, reply.body) \o rest.out
                      ELSE <<>>,
             sent |-> items \cup rest.sent,
             nreq |-> 1 + rest.nreq,
             calls |-> <<reply.ok>> \o rest.calls]

\* the whole chunk loop of translate_v2 / translate_v1 from chunk c on:
\* the Result, the request items sent in full, the number of requests, and
\* whether each request in turn succeeded
RECURSIVE ChunkLoop(_, _, _, _)
ChunkLoop(data, c, t, mode) ==
    IF c > NumChunks(data, ChunkSize)
    THEN [ok |-> TRUE, out |-> <<>>, sent |-> {}, nreq |-> 0, calls |-> <<>>]
    ELSE LET chunk == ChunkOf(data, ChunkSize, c)
             qry   == QueryOf(chunk)
             items == {qry[i] : i \in 1..Len(qry)} \ {EmptyStr}
             reply == ReplyTo(mode, c, t, qry)
         IN IF ~reply.ok
            THEN [ok |-> FALSE, out |-> <<>>, sent |-> items, nreq |-> 1,
                  calls |-> <<FALSE>>]
            ELSE LET rest == ChunkLoop(data, c + 1, t, mode)
                 IN [ok   |-> rest.ok,
                     out  |-> IF rest.ok
                              THEN ProcessResponse(chunk, reply.body) \o rest.out
                              ELSE <<>>,
                     sent |-> items \cup rest.sent,
                     nreq |-> 1 + rest.nreq,
                     calls |-> <<TRUE>> \o rest.calls]

\* a variant that goes to the adapter without normalizing the languages
TranslateDataUnchecked(provider, data, t, mode) ==
    LET r == ChunkLoop(data, 1, t, mode)
    IN [ok |-> r.ok, out |-> r.out, sent |-> r.sent, nreq |-> r.nreq,
        calls |-> r.calls, err |-> IF r.ok THEN "none" ELSE "request"]

\* translate_data: normalize_lang of the source and of the target language
\* (`?` on each), then dispatch on the provider (both adapters run the same
\* loop)
TranslateData(provider, data, t, mode) ==
    IF \/ ~NormalizeLang(provider, TagOf(SourceLocale)).ok
       \/ ~NormalizeLang(provider, TagOf(t)).ok
    THEN [ok |-> FALSE, out |-> <<>>, sent |-> {}, nreq |-> 0,
          calls |-> <<>>, err |-> "unsupported"]
    ELSE LET r == ChunkLoop(data, 1, t, mode)
         IN [ok |-> r.ok, out |-> r.out, sent |-> r.sent, nreq |-> r.nreq,
             calls |-> r.calls, err |-> IF r.ok THEN "none" ELSE "request"]

\* SyncRateLimiter::translate called n times in a row by one caller on
\* bucket b: the bucket and the clock afterwards
RECURSIVE Draw(_, _, _)
Draw(b, at, n) ==
    IF n = 0 THEN [bucket |-> b, now |-> at]
    ELSE LET tokens == Refilled(b, at)
         IN IF tokens >= TokenUnit
            THEN Draw([tokens |-> TakeToken(tokens), last_update |-> at],
                      at, n - 1)
            ELSE Draw([tokens |-> tokens, last_update |-> at],
                      at + WaitTime(tokens), n)

\* translate_v1 makes its own limiter (`let limiter = SyncRateLimiter::new()`)
\* and sends every request of the call through it
LimiterAfterCall(provider, at, nreq) ==
    IF provider = "LIBRETRANSLATE" THEN Draw(NewLimiter(at), at, nreq)
    ELSE [bucket |-> bucket, now |-> at]

-----------------------------------------------------------------------------
(* lib.rs: TranslationAPI::translate *)

\* contents of the source locale file
SourceContents ==
    { [k \in {"k1"} |-> <<"a">>],
      [k \in {"k1", "k2"} |-> <<"a">>],
      [k \in {"_version", "k1", "k2", "k3"} |->
          IF k \in {"k1", "k3"} THEN <<"a">> ELSE <<"b">>] }

SourceFile(c) == [there |-> TRUE, val |-> c, len |-> SizeKv(c)]

TargetLists == {<<>>, <<"fr">>, <<"fr", "de">>}
Configs == [targets : TargetLists, use_cache : BOOLEAN, provider : Providers]

Range(q) == {q[i] : i \in 1..Len(q)}

SourceName == <<SourceLocale, "json">>

\* what a run did, for the properties: the source file and the directory
\* listing it started from, the checksum Autogen::load returned, the gate,
\* the outcome, the provider traffic (texts sent, requests in order with
\* their outcome, per target the number of texts requested and returned),
\* the maps handed to write_locale_file, and the limiters that gated a
\* request
NewObs(d, stored, loaded, verify, entered, result) ==
    [src |-> d[SourceName], files |-> {n \in FileNames : d[n].there},
     stored |-> stored,
     loaded_empty |-> (loaded = DefaultAutogen),
     verify |-> verify, entered |-> entered, result |-> result,
     sent |-> {}, nreq |-> 0, kv |-> EmptyMap, limiters |-> 0,
     modes |-> {}, calls |-> <<>>, counts |-> EmptyMap, error |-> "none"]

NoObs == NewObs([n \in FileNames |-> NoFile(EmptyMap)], None, DefaultAutogen,
                "ok", FALSE, "none")

\* the summary kept of the run before the current one
Summary(o, cfg, f) ==
    [src |-> o.src, targets |-> Range(cfg.targets),
     use_cache |-> cfg.use_cache, result |-> o.result,
     cache |-> IF ParsesAutogen(f) THEN f.val.data ELSE EmptyMap]

\* lines 147-186: verify_locales, Autogen::load, the empty-target exit, the
\* checksum gate, load_locales
Begin(cfg) ==
    /\ run_pc = "idle"
    /\ runs < MaxRuns
    /\ runs' = runs + 1
    /\ config' = cfg
    /\ prev' = Summary(obs, config, cache_file)
    /\ tix' = 1
    /\ LET v      == VerifyLocales(dir, cache_file, SourceLocale,
                                   Range(cfg.targets))
           ld     == LoadAutogen(v.cache)
           stored == ld.autogen.sha256
           checksum_res ==
               IsMatchSha256(v.dir, SourceLocale, ld.autogen.sha256)
       IN /\ dir' = v.dir
          /\ IF cfg.targets = <<>>
             THEN /\ autogen' = [ld.autogen EXCEPT !.data = EmptyMap]
                  /\ cache_file' = UpdateAutogenCache(ld.file, autogen')
                  /\ obs' = NewObs(dir, stored, ld.autogen, v.result,
                                   FALSE, "empty")
                  /\ UNCHANGED <<run_pc, src_map>>
             ELSE IF checksum_res.some \/ v.result # "ok"
             THEN /\ autogen' = [ld.autogen EXCEPT !.sha256 = checksum_res]
                  /\ cache_file' = ld.file
                  /\ IF SourcePath(v.dir, SourceLocale) = {}
                     THEN /\ obs' = NewObs(dir, stored, ld.autogen, v.result,
                                           TRUE, "nosource")
                          /\ UNCHANGED <<run_pc, src_map>>
                     ELSE /\ obs' = NewObs(dir, stored, ld.autogen, v.result,
                                           TRUE, "running")
                          /\ src_map' = MapRemove(v.dir[SourceName].val,
                                                  "_version")
                          /\ run_pc' = "loop"
             ELSE /\ autogen' = ld.autogen
                  /\ cache_file' = ld.file
                  /\ obs' = NewObs(dir, stored, ld.autogen, v.result,
                                   FALSE, "skip")
                  /\ UNCHANGED <<run_pc, src_map>>
    /\ UNCHANGED <<langVars, keyVars, adapterVars, limiterVars>>

\* a variant in which the first translation stored for a text is kept
RECURSIVE InsertAllKeepFirst(_, _, _, _)
InsertAllKeepFirst(m, vals, outs, i) ==
    IF i > Len(vals) THEN m
    ELSE InsertAllKeepFirst(IF vals[i] \in DOMAIN m THEN m
                            ELSE MapInsert(m, vals[i], outs[i]),
                            vals, outs, i + 1)

\* autogen_locale after `for (index, value) in to_translate_values`
RECURSIVE InsertAll(_, _, _, _)
InsertAll(m, vals, outs, i) ==
    IF i > Len(vals) THEN m
    ELSE InsertAll(MapInsert(m, vals[i], outs[i]), vals, outs, i + 1)

\* position() of key k in to_translate_keys, 0 when absent
PositionOf(keys, k) ==
    IF \E i \in 1..Len(keys) : keys[i] = k
    THEN CHOOSE i \in 1..Len(keys) :
             keys[i] = k /\ \A j \in 1..(i - 1) : keys[j] # k
    ELSE 0

\* translated_kv of the cache branch (lines 243-284)
MergedKv(to_keys, outs, autogen_locale) ==
    [k \in DOMAIN src_map |->
        IF Len(outs) > 0 /\ PositionOf(to_keys, k) > 0
        THEN outs[PositionOf(to_keys, k)]
        ELSE IF src_map[k] \in DOMAIN autogen_locale
             THEN autogen_locale[src_map[k]]
             ELSE src_map[k]]

\* a variant of the loop iteration that gives up the run on a count mismatch
TranslateTargetStrict(mode) ==
    /\ run_pc = "loop"
    /\ tix <= Len(config.targets)
    /\ LET t == config.targets[tix]
           keys == SortedKeys(src_map)
           autogen_data ==
               IF t \in DOMAIN autogen.data THEN autogen.data[t] ELSE EmptyMap
           to_keys ==
               IF config.use_cache
               THEN SelectSeq(keys, LAMBDA k : src_map[k] \notin DOMAIN autogen_data)
               ELSE keys
           to_vals == [i \in 1..Len(to_keys) |-> src_map[to_keys[i]]]
           r == TranslateData(config.provider, to_vals, t, mode)
           lim == LimiterAfterCall(config.provider, now, r.nreq)
           o1 == [obs EXCEPT
                    !.sent = @ \cup {<<t, q>> : q \in r.sent},
                    !.nreq = @ + r.nreq,
                    !.modes = @ \cup {mode},
                    !.calls = @ \o [i \in 1..Len(r.calls) |->
                                       [t |-> t, ok |-> r.calls[i]]],
                    !.counts = IF r.ok
                               THEN MapInsert(@, t, <<Len(to_vals), Len(r.out)>>)
                               ELSE @,
                    !.limiters = @ + IF /\ config.provider = "LIBRETRANSLATE"
                                        /\ r.nreq > 0
                                     THEN 1 ELSE 0]
       IN /\ bucket' = lim.bucket
          /\ now' = lim.now
          /\ IF ~r.ok
             THEN /\ obs' = [o1 EXCEPT !.result = "err", !.error = r.err]
                  /\ run_pc' = "idle"
                  /\ UNCHANGED <<dir, autogen, tix>>
             ELSE /\ tix' = tix + 1
                  /\ run_pc' = IF Len(r.out) # Len(to_keys)
                               THEN "idle" ELSE run_pc
                  /\ IF Len(r.out) # Len(to_keys)
                     THEN /\ obs' = [o1 EXCEPT !.result = "err"]
                          /\ UNCHANGED <<dir, autogen>>
                     ELSE LET autogen_locale ==
                                  InsertAll(autogen_data, to_vals, r.out, 1)
                              kv == IF config.use_cache
                                    THEN MergedKv(to_keys, r.out, autogen_locale)
                                    ELSE [k \in DOMAIN src_map |->
                                             r.out[PositionOf(to_keys, k)]]
                          IN /\ autogen' =
                                   IF config.use_cache /\ Len(r.out) > 0
                                   THEN [autogen EXCEPT !.data =
                                            MapInsert(@, t, autogen_locale)]
                                   ELSE autogen
                             /\ dir' = WriteLocaleFile(dir, kv, SourceLocale, t)
                             /\ obs' = [o1 EXCEPT !.kv = MapInsert(@, t, kv)]
    /\ UNCHANGED <<cache_file, config, src_map, prev, runs>>
    /\ UNCHANGED <<langVars, keyVars, adapterVars, lock, pc, wake, todo, cur, performed>>

\* a variant of the loop iteration that stores the translations in the cache
\* in the no-cache branch as well
TranslateTargetCaching(mode) ==
    /\ run_pc = "loop"
    /\ tix <= Len(config.targets)
    /\ LET t == config.targets[tix]
           keys == SortedKeys(src_map)
           autogen_data ==
               IF t \in DOMAIN autogen.data THEN autogen.data[t] ELSE EmptyMap
           to_keys ==
               IF config.use_cache
               THEN SelectSeq(keys, LAMBDA k : src_map[k] \notin DOMAIN autogen_data)
               ELSE keys
           to_vals == [i \in 1..Len(to_keys) |-> src_map[to_keys[i]]]
           r == TranslateData(config.provider, to_vals, t, mode)
           lim == LimiterAfterCall(config.provider, now, r.nreq)
           o1 == [obs EXCEPT
                    !.sent = @ \cup {<<t, q>> : q \in r.sent},
                    !.nreq = @ + r.nreq,
                    !.modes = @ \cup {mode},
                    !.calls = @ \o [i \in 1..Len(r.calls) |->
                                       [t |-> t, ok |-> r.calls[i]]],
                    !.counts = IF r.ok
                               THEN MapInsert(@, t, <<Len(to_vals), Len(r.out)>>)
                               ELSE @,
                    !.limiters = @ + IF /\ config.provider = "LIBRETRANSLATE"
                                        /\ r.nreq > 0
                                     THEN 1 ELSE 0]
       IN /\ bucket' = lim.bucket
          /\ now' = lim.now
          /\ IF ~r.ok
             THEN /\ obs' = [o1 EXCEPT !.result = "err", !.error = r.err]
                  /\ run_pc' = "idle"
                  /\ UNCHANGED <<dir, autogen, tix>>
             ELSE /\ tix' = tix + 1
                  /\ UNCHANGED run_pc
                  /\ IF Len(r.out) # Len(to_keys)
                     THEN /\ obs' = o1
                          /\ UNCHANGED <<dir, autogen>>
                     ELSE LET autogen_locale ==
                                  InsertAll(autogen_data, to_vals, r.out, 1)
                              kv == IF config.use_cache
                                    THEN MergedKv(to_keys, r.out, autogen_locale)
                                    ELSE [k \in DOMAIN src_map |->
                                             r.out[PositionOf(to_keys, k)]]
                          IN /\ autogen' =
                                   IF Len(r.out) > 0
                                   THEN [autogen EXCEPT !.data =
                                            MapInsert(@, t, autogen_locale)]
                                   ELSE autogen
                             /\ dir' = WriteLocaleFile(dir, kv, SourceLocale, t)
                             /\ obs' = [o1 EXCEPT !.kv = MapInsert(@, t, kv)]
    /\ UNCHANGED <<cache_file, config, src_map, prev, runs>>
    /\ UNCHANGED <<langVars, keyVars, adapterVars, lock, pc, wake, todo, cur, performed>>

\* one iteration of `for target_locale in config.target_locales`, in the
\* cache branch (lines 190-301) or the no-cache branch (lines 311-342)
TranslateTarget(mode) ==
    /\ run_pc = "loop"
    /\ tix <= Len(config.targets)
    /\ LET t == config.targets[tix]
           keys == SortedKeys(src_map)
           autogen_data ==
               IF t \in DOMAIN autogen.data THEN autogen.data[t] ELSE EmptyMap
           to_keys ==
               IF config.use_cache
               THEN SelectSeq(keys, LAMBDA k : src_map[k] \notin DOMAIN autogen_data)
               ELSE keys
           to_vals == [i \in 1..Len(to_keys) |-> src_map[to_keys[i]]]
           r == TranslateData(config.provider, to_vals, t, mode)
           lim == LimiterAfterCall(config.provider, now, r.nreq)
           o1 == [obs EXCEPT
                    !.sent = @ \cup {<<t, q>> : q \in r.sent},
                    !.nreq = @ + r.nreq,
                    !.modes = @ \cup {mode},
                    !.calls = @ \o [i \in 1..Len(r.calls) |->
                                       [t |-> t, ok |-> r.calls[i]]],
                    !.counts = IF r.ok
                               THEN MapInsert(@, t, <<Len(to_vals), Len(r.out)>>)
                               ELSE @,
                    !.limiters = @ + IF /\ config.provider = "LIBRETRANSLATE"
                                        /\ r.nreq > 0
                                     THEN 1 ELSE 0]
       IN /\ bucket' = lim.bucket
          /\ now' = lim.now
          /\ IF ~r.ok
             THEN /\ obs' = [o1 EXCEPT !.result = "err", !.error = r.err]
                  /\ run_pc' = "idle"
                  /\ UNCHANGED <<dir, autogen, tix>>
             ELSE /\ tix' = tix + 1
                  /\ UNCHANGED run_pc
                  /\ IF Len(r.out) # Len(to_keys)
                     THEN /\ obs' = o1
                          /\ UNCHANGED <<dir, autogen>>
                     ELSE LET autogen_locale ==
                                  InsertAll(autogen_data, to_vals, r.out, 1)
                              kv == IF config.use_cache
                                    THEN MergedKv(to_keys, r.out, autogen_locale)
                                    ELSE [k \in DOMAIN src_map |->
                                             r.out[PositionOf(to_keys, k)]]
                          IN /\ autogen' =
                                   IF config.use_cache /\ Len(r.out) > 0
                                   THEN [autogen EXCEPT !.data =
                                            MapInsert(@, t, autogen_locale)]
                                   ELSE autogen
                             /\ dir' = WriteLocaleFile(dir, kv, SourceLocale, t)
                             /\ obs' = [o1 EXCEPT !.kv = MapInsert(@, t, kv)]
    /\ UNCHANGED <<cache_file, config, src_map, prev, runs>>
    /\ UNCHANGED <<langVars, keyVars, adapterVars, lock, pc, wake, todo, cur, performed>>

\* lines 345-351: autogen.update_cache() and Ok(())
Finish ==
    /\ run_pc = "loop"
    /\ tix > Len(config.targets)
    /\ cache_file' = UpdateAutogenCache(cache_file, autogen)
    /\ obs' = [obs EXCEPT !.result = "done"]
    /\ run_pc' = "idle"
    /\ UNCHANGED <<dir, config, autogen, src_map, tix, prev, runs>>
    /\ UNCHANGED <<langVars, keyVars, adapterVars, limiterVars>>

\* between two runs the user edits the source locale file
EditSource(c) ==
    /\ run_pc = "idle"
    /\ runs < MaxRuns
    /\ dir[SourceName].there
    /\ dir[SourceName].val # c
    /\ dir' = [dir EXCEPT ![SourceName] = SourceFile(c)]
    /\ UNCHANGED <<cache_file, config, run_pc, autogen, src_map, tix, obs,
                   prev, runs>>
    /\ UNCHANGED <<langVars, keyVars, adapterVars, limiterVars>>

\* no run yet
RunOff ==
    /\ dir = [n \in FileNames |-> NoFile(EmptyMap)]
    /\ cache_file = NoFile(DefaultAutogen)
    /\ config = [targets |-> <<>>, use_cache |-> TRUE, provider |-> "GOOGLE"]
    /\ run_pc = "idle"
    /\ autogen = DefaultAutogen
    /\ src_map = EmptyMap
    /\ tix = 1
    /\ obs = NoObs
    /\ prev = Summary(NoObs, config, NoFile(DefaultAutogen))
    /\ runs = 0

\* a new project: the locale directory holds the source file only, and no
\* cache file exists
Init ==
    /\ \E c \in SourceContents :
         dir = [n \in FileNames |->
                   IF n = SourceName THEN SourceFile(c) ELSE NoFile(EmptyMap)]
    /\ cache_file = NoFile(DefaultAutogen)
    /\ config = [targets |-> <<>>, use_cache |-> TRUE, provider |-> "GOOGLE"]
    /\ run_pc = "idle"
    /\ autogen = DefaultAutogen
    /\ src_map = EmptyMap
    /\ tix = 1
    /\ obs = NoObs
    /\ prev = Summary(NoObs, config, NoFile(DefaultAutogen))
    /\ runs = 0
    /\ AdapterOff
    /\ LimiterOff
    /\ LangOff
    /\ KeyOff

\* histories of runs through the Google adapter, with a provider that
\* translates every item, returns one item too few, or fails
HistoryConfigs == {cfg \in Configs : cfg.provider = "GOOGLE"}
HistoryModes == {"plain", "short", "fail"}

Next ==
    \/ \E cfg \in HistoryConfigs : Begin(cfg)
    \/ \E mode \in HistoryModes : TranslateTarget(mode)
    \/ Finish
    \/ \E c \in SourceContents : EditSource(c)

Spec == Init /\ [][Next]_vars

\* the states one run may start from: any locale directory (with or without
\* the source file, with older locale files of any name), and any cache
\* file (absent, empty, well-formed, or followed by stale bytes)
OldLocaleFile ==
    LET kv == [k \in {"k1", "k2"} |-> <<"old">>]
    IN [there |-> TRUE, val |-> kv, len |-> SizeKv(kv)]

Directories ==
    {[n \in FileNames |->
         IF n = SourceName THEN srcf
         ELSE IF n \in present THEN OldLocaleFile ELSE NoFile(EmptyMap)] :
       srcf \in {NoFile(EmptyMap)} \cup {SourceFile(c) : c \in SourceContents},
       present \in SUBSET TargetNames}

CachedData ==
    { EmptyMap,
      [l \in {"fr"} |-> [q \in {<<"a">>} |-> Translation(l, q)]],
      [l \in {"de"} |-> [q \in Texts |-> Translation(l, q)]],
      [l \in {"fr", "de"} |-> [q \in {<<"a">>} |-> Translation(l, q)]],
      [l \in {"fr"} |-> [q \in Texts |-> <<"old">>]] }

Autogens ==
    [sha256 : {None} \cup {Some(c) : c \in SourceContents}, data : CachedData]

CacheFiles ==
    {NoFile(DefaultAutogen),
     [there |-> TRUE, val |-> DefaultAutogen, len |-> 0],
     [there |-> TRUE, val |-> DefaultAutogen, len |-> 40]}
    \cup {[there |-> TRUE, val |-> a, len |-> SizeAutogen(a)] : a \in Autogens}

InitAny ==
    /\ dir \in Directories
    /\ cache_file \in CacheFiles
    /\ config = [targets |-> <<>>, use_cache |-> TRUE, provider |-> "GOOGLE"]
    /\ run_pc = "idle"
    /\ autogen = DefaultAutogen
    /\ src_map = EmptyMap
    /\ tix = 1
    /\ obs = NoObs
    /\ prev = Summary(NoObs, config, NoFile(DefaultAutogen))
    /\ runs = MaxRuns - 1
    /\ AdapterOff
    /\ LimiterOff
    /\ LangOff
    /\ KeyOff

\* one run with any configuration, through either adapter, the provider
\* answering each call in any of its modes
NextOneRun ==
    \/ \E cfg \in Configs : Begin(cfg)
    \/ \E mode \in Modes : TranslateTarget(mode)
    \/ Finish

SpecOneRun == InitAny /\ [][NextOneRun]_vars

-----------------------------------------------------------------------------
(* deepl_translate::translate_v2 as a whole: the choice of the path, then   *)
(* the chunk loop with a key or the keyless loop (DeepLX; the Google web    *)
(* path of google_translate::translate_v2 is the same loop)                 *)

\* line 69-75: get_key_url and the test of the key
SelectPath ==
    /\ call_state = "start"
    /\ key_url' = GetKeyUrl(env_free, env_pro)
    /\ call_state' = IF TakesKeyedPath(key_url') THEN "running" ELSE "keyless"
    /\ UNCHANGED <<source_data, chunk_ix, requests, responses, translated>>
    /\ UNCHANGED <<env_free, env_pro, item_ix, keyless_cache>>
    /\ UNCHANGED <<limiterVars, runVars, langVars>>

\* everything deeplx_translate / google_web_translate may come back with for
\* one string: Ok(decoded text) or Err
WebReplies(t, q) ==
    {[ok |-> TRUE, body |-> <<r>>] : r \in RawAnswers(t, q)} \cup {Failure}

\* a variant of the keyless loop's iteration that does not remember what it
\* translated
KeylessItemForgetful ==
    /\ call_state = "keyless"
    /\ item_ix <= Len(source_data)
    /\ LET q == source_data[item_ix]
       IN IF q \in DOMAIN keyless_cache
          THEN /\ translated' = Append(translated, keyless_cache[q])
               /\ item_ix' = item_ix + 1
               /\ UNCHANGED <<requests, responses, keyless_cache, call_state>>
          ELSE \E resp \in WebReplies(Lang, q) :
                 /\ requests' = Append(requests, <<q>>)
                 /\ responses' = Append(responses, resp)
                 /\ IF resp.ok
                    THEN /\ translated' =
                               Append(translated, DecodeHtml(resp.body[1]))
                         /\ item_ix' = item_ix + 1
                         /\ UNCHANGED <<call_state, keyless_cache>>
                    ELSE /\ call_state' = "err"
                         /\ UNCHANGED <<translated, keyless_cache, item_ix>>
    /\ UNCHANGED <<source_data, chunk_ix, env_free, env_pro, key_url>>
    /\ UNCHANGED <<limiterVars, runVars, langVars>>

\* one iteration of `for romanize in source_data.iter()` (lines 197-211;
\* google_translate.rs:158-172)
KeylessItem ==
    /\ call_state = "keyless"
    /\ item_ix <= Len(source_data)
    /\ LET q == source_data[item_ix]
       IN IF q \in DOMAIN keyless_cache
          THEN /\ translated' = Append(translated, keyless_cache[q])
               /\ item_ix' = item_ix + 1
               /\ UNCHANGED <<requests, responses, keyless_cache, call_state>>
          ELSE \E resp \in WebReplies(Lang, q) :
                 /\ requests' = Append(requests, <<q>>)
                 /\ responses' = Append(responses, resp)
                 /\ IF resp.ok
                    THEN /\ translated' =
                               Append(translated, DecodeHtml(resp.body[1]))
                         /\ keyless_cache' =
                               MapInsert(keyless_cache, q,
                                         DecodeHtml(resp.body[1]))
                         /\ item_ix' = item_ix + 1
                         /\ UNCHANGED call_state
                    ELSE /\ call_state' = "err"
                         /\ UNCHANGED <<translated, keyless_cache, item_ix>>
    /\ UNCHANGED <<source_data, chunk_ix, env_free, env_pro, key_url>>
    /\ UNCHANGED <<limiterVars, runVars, langVars>>

\* Ok(translated) after the last item (line 214)
KeylessReturnOk ==
    /\ call_state = "keyless"
    /\ item_ix > Len(source_data)
    /\ call_state' = "ok"
    /\ UNCHANGED <<source_data, chunk_ix, requests, responses, translated>>
    /\ UNCHANGED <<keyVars, limiterVars, runVars, langVars>>

-----------------------------------------------------------------------------
(* Specifications *)

\* one call of translate_v2 / translate_v1 on any input
InitAdapter ==
    /\ source_data \in Inputs
    /\ chunk_ix = 1
    /\ requests = <<>>
    /\ responses = <<>>
    /\ translated = <<>>
    /\ call_state = "running"
    /\ LimiterOff
    /\ RunOff
    /\ LangOff
    /\ KeyOff

NextAdapter == SendChunk \/ ReturnOk

SpecAdapter == InitAdapter /\ [][NextAdapter]_vars

\* one caller issues its calls in immediate succession through a new
\* limiter: time passes only while it sleeps
InitBurst ==
    /\ bucket = NewLimiter(0)
    /\ now = 0
    /\ lock = NoOne
    /\ \E n \in 1..MaxCalls :
         /\ todo = [c \in Callers |-> IF c = 1 THEN n ELSE 0]
         /\ pc = [c \in Callers |-> IF c = 1 THEN "start" ELSE "done"]
    /\ wake = [c \in Callers |-> 0]
    /\ cur = [c \in Callers |-> [no |-> 0, waited |-> 0]]
    /\ performed = <<>>
    /\ AdapterOff
    /\ RunOff
    /\ LangOff
    /\ KeyOff

NextBurst ==
    \/ \E c \in Callers : Lock(c)
    \/ \E c \in Callers : Acquire(c)
    \/ SleepTick
    \/ \E c \in Callers : Wake(c)
    \/ \E c \in Callers : Relock(c)
    \/ \E c \in Callers : Perform(c)

\* the single caller keeps running and its sleeps end
SpecBurst == InitBurst /\ [][NextBurst]_vars /\ WF_vars(NextBurst)

\* several threads call through one limiter, each up to MaxThreadCalls times
InitShared ==
    /\ bucket = NewLimiter(0)
    /\ now = 0
    /\ lock = NoOne
    /\ todo \in [Callers -> 1..MaxThreadCalls]
    /\ pc = [c \in Callers |-> "start"]
    /\ wake = [c \in Callers |-> 0]
    /\ cur = [c \in Callers |-> [no |-> 0, waited |-> 0]]
    /\ performed = <<>>
    /\ AdapterOff
    /\ RunOff
    /\ LangOff
    /\ KeyOff

NextShared ==
    \/ \E c \in Callers : Lock(c)
    \/ \E c \in Callers : Acquire(c)
    \/ SleepTick
    \/ \E c \in Callers : Wake(c)
    \/ \E c \in Callers : Relock(c)
    \/ \E c \in Callers : Perform(c)

SpecShared == InitShared /\ [][NextShared]_vars

\* two threads share one limiter and time passes at any moment
NextTimed == NextShared \/ IdleTick

SpecTimed == InitShared /\ [][NextTimed]_vars

\* one call of normalize_lang with any provider and any tag
InitLang ==
    /\ lang_provider \in AllProviders
    /\ lang_code \in Tags
    /\ lang_result = Unsupported
    /\ lang_state = "called"
    /\ AdapterOff
    /\ LimiterOff
    /\ RunOff
    /\ KeyOff

NextLang == NormalizeCall

SpecLang == InitLang /\ [][NextLang]_vars

\* one call of deepl_translate::translate_v2 on any input, with the two key
\* variables in any of their states
InitKeys ==
    /\ env_free \in FreeValues
    /\ env_pro \in ProValues
    /\ key_url = [key |-> NoKey, url |-> "none"]
    /\ item_ix = 1
    /\ keyless_cache = <<>>
    /\ source_data \in Inputs
    /\ chunk_ix = 1
    /\ requests = <<>>
    /\ responses = <<>>
    /\ translated = <<>>
    /\ call_state = "start"
    /\ LimiterOff
    /\ RunOff
    /\ LangOff

NextKeys ==
    \/ SelectPath
    \/ SendChunk
    \/ ReturnOk
    \/ KeylessItem
    \/ KeylessReturnOk

SpecKeys == InitKeys /\ [][NextKeys]_vars

\* one run whose target list may name a language that the provider does not
\* list, from directories and caches that may already hold that language
LocaleTargetLists ==
    {<<"fr">>, <<OtherLang>>, <<"fr", OtherLang>>, <<OtherLang, "fr">>}
LocaleConfigs ==
    [targets : LocaleTargetLists, use_cache : BOOLEAN, provider : Providers]

LocaleDirectories ==
    {[n \in FileNames |->
         IF n = SourceName THEN SourceFile(c)
         ELSE IF n \in present THEN OldLocaleFile ELSE NoFile(EmptyMap)] :
       c \in SourceContents,
       present \in SUBSET {<<"fr", "json">>, <<OtherLang, "json">>}}

LocaleCacheFiles ==
    {[there |-> TRUE, val |-> a, len |-> SizeAutogen(a)] :
        a \in [sha256 : {None} \cup {Some(c) : c \in SourceContents},
               data : {EmptyMap,
                       [l \in {OtherLang} |-> [q \in Texts |-> <<"old">>]],
                       [l \in {"fr", OtherLang} |->
                           [q \in Texts |-> <<"old">>]]}]}

InitLocales ==
    /\ dir \in LocaleDirectories
    /\ cache_file \in LocaleCacheFiles
    /\ config = [targets |-> <<>>, use_cache |-> TRUE, provider |-> "GOOGLE"]
    /\ run_pc = "idle"
    /\ autogen = DefaultAutogen
    /\ src_map = EmptyMap
    /\ tix = 1
    /\ obs = NoObs
    /\ prev = Summary(NoObs, config, NoFile(DefaultAutogen))
    /\ runs = MaxRuns - 1
    /\ AdapterOff
    /\ LimiterOff
    /\ LangOff
    /\ KeyOff

NextLocales ==
    \/ \E cfg \in LocaleConfigs : Begin(cfg)
    \/ \E mode \in Modes : TranslateTarget(mode)
    \/ Finish

SpecLocales == InitLocales /\ [][NextLocales]_vars

\* one run of translate through the Google adapter, from a directory that
\* holds no target file yet and a cache without translations, while a single
\* caller issues a burst of calls through a limiter; the run goes on as long
\* as its calls return, and so does the caller
StartDirectories ==
    {d \in Directories : \A n \in TargetNames : ~d[n].there}

StartCacheFiles == {f \in CacheFiles : f.val.data = EmptyMap}

InitFair ==
    /\ dir \in StartDirectories
    /\ cache_file \in StartCacheFiles
    /\ config = [targets |-> <<>>, use_cache |-> TRUE, provider |-> "GOOGLE"]
    /\ run_pc = "idle"
    /\ autogen = DefaultAutogen
    /\ src_map = EmptyMap
    /\ tix = 1
    /\ obs = NoObs
    /\ prev = Summary(NoObs, config, NoFile(DefaultAutogen))
    /\ runs = MaxRuns - 1
    /\ bucket = NewLimiter(0)
    /\ now = 0
    /\ lock = NoOne
    /\ \E n \in MaxBurst..(MaxBurst + 1) :
         /\ todo = [c \in Callers |-> IF c = 1 THEN n ELSE 0]
         /\ pc = [c \in Callers |-> IF c = 1 THEN "start" ELSE "done"]
    /\ wake = [c \in Callers |-> 0]
    /\ cur = [c \in Callers |-> [no |-> 0, waited |-> 0]]
    /\ performed = <<>>
    /\ AdapterOff
    /\ LangOff
    /\ KeyOff

NextRun ==
    \/ \E cfg \in HistoryConfigs : Begin(cfg)
    \/ \E mode \in Modes : TranslateTarget(mode)
    \/ Finish

NextFair == NextRun \/ NextBurst

\* a step of NextRun is possible: no run has been started yet (Begin), or
\* the run is inside its loop (TranslateTarget for the target in turn, or
\* Finish after the last one)
RunPending == runs < MaxRuns \/ run_pc = "loop"

\* weak fairness of NextRun, its enabling condition written out: the call of
\* translate is made, and the run goes on as long as its calls return
RunFairness == []<><<NextRun>>_vars \/ []<>~RunPending

SpecFair ==
    InitFair /\ [][NextFair]_vars /\ RunFairness /\ WF_vars(NextBurst)

\* one run from a directory without target files and any cache file, the
\* provider answering in any of its modes or with bodies of shifted length
InitShifted ==
    /\ dir \in StartDirectories
    /\ cache_file \in CacheFiles
    /\ config = [targets |-> <<>>, use_cache |-> TRUE, provider |-> "GOOGLE"]
    /\ run_pc = "idle"
    /\ autogen = DefaultAutogen
    /\ src_map = EmptyMap
    /\ tix = 1
    /\ obs = NoObs
    /\ prev = Summary(NoObs, config, NoFile(DefaultAutogen))
    /\ runs = MaxRuns - 1
    /\ AdapterOff
    /\ LimiterOff
    /\ LangOff
    /\ KeyOff

NextShifted ==
    \/ \E cfg \in Configs : Begin(cfg)
    \/ \E mode \in Modes \cup ShiftedModes : TranslateTarget(mode)
    \/ Finish

SpecShifted == InitShifted /\ [][NextShifted]_vars

\* two runs in a row, the first of which may be aborted by a failing request
\* or by a language the provider does not list, from directories in which
\* any target file may be missing and caches that may hold a checksum
RetryTargetLists == {<<"fr">>, <<"fr", "de">>, <<OtherLang>>, <<"fr", OtherLang>>}
RetryConfigs ==
    [targets : RetryTargetLists, use_cache : BOOLEAN, provider : Providers]
RetryModes == {"plain", "fail"}

RetryDirectories ==
    {[n \in FileNames |->
         IF n = SourceName THEN SourceFile(c)
         ELSE IF n \in present THEN OldLocaleFile ELSE NoFile(EmptyMap)] :
       c \in SourceContents,
       present \in SUBSET {<<"fr", "json">>, <<"de", "json">>,
                            <<OtherLang, "json">>}}

RetryCacheFiles ==
    {NoFile(DefaultAutogen)}
    \cup {[there |-> TRUE, val |-> a, len |-> SizeAutogen(a)] :
             a \in [sha256 : {None} \cup {Some(c) : c \in SourceContents},
                    data : {EmptyMap}]}

InitRetry ==
    /\ dir \in RetryDirectories
    /\ cache_file \in RetryCacheFiles
    /\ config = [targets |-> <<>>, use_cache |-> TRUE, provider |-> "GOOGLE"]
    /\ run_pc = "idle"
    /\ autogen = DefaultAutogen
    /\ src_map = EmptyMap
    /\ tix = 1
    /\ obs = NoObs
    /\ prev = Summary(NoObs, config, NoFile(DefaultAutogen))
    /\ runs = MaxRuns - 2
    /\ AdapterOff
    /\ LimiterOff
    /\ LangOff
    /\ KeyOff

NextRetry ==
    \/ \E cfg \in RetryConfigs : Begin(cfg)
    \/ \E mode \in RetryModes : TranslateTarget(mode)
    \/ Finish

SpecRetry == InitRetry /\ [][NextRetry]_vars

-----------------------------------------------------------------------------
(* Properties of one adapter call (SpecAdapter) *)

\* the chunk that request number c was built from
SentChunk(c) == ChunkOf(source_data, ChunkSize, c)

\* the provider answered every request so far with one text per item
AllBodiesExact ==
    \A c \in 1..Len(responses) :
        responses[c].ok /\ Len(responses[c].body) = Len(requests[c])

\* position of item i of chunk c in the input and, with exact bodies, in
\* `translated`
GlobalPos(c, i) == (c - 1) * ChunkSize + i

\* every request carries each distinct string once, at its first position in
\* the chunk, and "" at every later position of that string
SentOncePerChunk ==
    \A c \in 1..Len(requests) :
        /\ Len(requests[c]) = Len(SentChunk(c))
        /\ \A i \in 1..Len(requests[c]) :
              requests[c][i] =
                  IF \A j \in 1..(i - 1) : SentChunk(c)[j] # SentChunk(c)[i]
                  THEN SentChunk(c)[i] ELSE EmptyStr

\* in the result, equal strings of one chunk hold equal translations
DuplicatesEqual ==
    \A c \in 1..Len(requests) :
        \A i, j \in 1..Len(requests[c]) :
            SentChunk(c)[i] = SentChunk(c)[j] =>
                translated[GlobalPos(c, i)] = translated[GlobalPos(c, j)]

\* C3: within one chunk each distinct string is sent once, at its first
\* position, later occurrences are sent as "", and after a call that
\* received one text per item every duplicate position of the result holds
\* the same string as the first position of its group, whatever the texts
\* (also with leading or trailing whitespace).
C3_DedupCorrect ==
    /\ SentOncePerChunk
    /\ (call_state = "ok" /\ AllBodiesExact) => DuplicatesEqual

\* the request that carried input position p, and the position in that
\* request at which the text of input position p was sent: the first
\* position of the chunk that holds the same text
RequestOf(p) == ((p - 1) \div ChunkSize) + 1
SentAt(p) ==
    LET base == (RequestOf(p) - 1) * ChunkSize
    IN CHOOSE i \in 1..(p - base) :
          /\ source_data[base + i] = source_data[p]
          /\ \A j \in 1..(i - 1) : source_data[base + j] # source_data[p]

\* C20: when every request was answered with one result per item, the
\* adapter returns as many strings as the input holds, and position p holds
\* what the provider answered for the text of input[p], up to surrounding
\* whitespace: the translation of input[p] whenever that answer is not
\* blank.
C20_OrderAndLength ==
    (call_state = "ok" /\ AllBodiesExact)
    => /\ Len(translated) = Len(source_data)
       /\ Len(requests) = NumChunks(source_data, ChunkSize)
       /\ \A p \in 1..Len(source_data) :
             LET v == responses[RequestOf(p)].body[SentAt(p)]
             IN /\ Trim(translated[p]) = Trim(DecodeHtml(v))
                /\ Trim(DecodeHtml(v)) # EmptyStr
                      => Trim(translated[p]) = Translation(Lang, source_data[p])

\* an input of two chunks, the second made of one text twice and different
\* from the first chunk's texts, came back translated position by position
C20_Witness ==
    /\ call_state = "ok"
    /\ source_data = <<<<"a">>, <<"a">>, <<"b">>, <<"b">>>>
    /\ Len(requests) = 2
    /\ AllBodiesExact
    /\ translated = [p \in 1..4 |-> Translation(Lang, source_data[p])]

-----------------------------------------------------------------------------
(* Properties of one DeepL call (SpecKeys) *)

\* the variable holds a key that is not empty
Given(v) == v.set /\ v.val # <<>>

\* what the claim has the call use
ExpectedKeyUrl ==
    IF Given(env_free)
    THEN [key |-> SomeKey(AuthHeader(env_free.val)), url |-> "free_api_url"]
    ELSE IF Given(env_pro)
    THEN [key |-> SomeKey(AuthHeader(env_pro.val)), url |-> "pro_api_url"]
    ELSE [key |-> NoKey, url |-> "web_url"]

\* C25: for every combination of the two variables being unset, empty or
\* non-empty, the free key and endpoint are used whenever the free key is
\* non-empty, the pro key and endpoint only when the free key is unset or
\* empty and the pro key is non-empty, and the keyless loop only when neither
\* is non-empty.
C25_KeySelection ==
    /\ [][call_state = "start"
          => /\ key_url' = ExpectedKeyUrl
             /\ call_state' = IF Given(env_free) \/ Given(env_pro)
                              THEN "running" ELSE "keyless"]_vars
    /\ [](call_state # "start" => key_url = ExpectedKeyUrl)
    /\ [](key_url.key.some => item_ix = 1 /\ keyless_cache = <<>>)
    /\ [](key_url.url = "web_url" => chunk_ix = 1)

\* both variables held a key; the call went through the chunk loop with the
\* free key and the free endpoint
C25_Witness ==
    /\ env_free = SetTo(<<"free-key">>)
    /\ env_pro = SetTo(<<"pro-key">>)
    /\ key_url = [key |-> SomeKey(<<"DeepL-Auth-Key ", "free-key">>),
                  url |-> "free_api_url"]
    /\ call_state = "ok"
    /\ Len(requests) = 2

\* the strings of input positions 1..n, each once, in order of first
\* occurrence
RECURSIVE FirstOccurrences(_)
FirstOccurrences(n) ==
    IF n = 0 THEN <<>>
    ELSE IF \E j \in 1..(n - 1) : source_data[j] = source_data[n]
         THEN FirstOccurrences(n - 1)
         ELSE Append(FirstOccurrences(n - 1), source_data[n])

\* the number of the request that carried string q
RequestFor(q) == CHOOSE r \in 1..Len(requests) : requests[r] = <<q>>

\* C30: on the keyless path each distinct string of the input is requested
\* once, in order of first occurrence, a repeated string is answered from the
\* map without a request, the output has the input's length and order, and
\* the first failing request ends the call with the error.
C30_KeylessPath ==
    /\ [](call_state \in {"keyless", "ok", "err"} /\ key_url.url = "web_url"
          => LET done == item_ix - 1
                 asked == FirstOccurrences(done)
             IN /\ Len(requests) = Len(asked) + IF call_state = "err" THEN 1 ELSE 0
                /\ requests = [r \in 1..Len(requests) |->
                                  IF r <= Len(asked) THEN <<asked[r]>>
                                  ELSE <<source_data[item_ix]>>]
                /\ Len(responses) = Len(requests)
                /\ \A r \in 1..Len(asked) : responses[r].ok
                /\ call_state = "err" => ~responses[Len(responses)].ok
                /\ call_state = "ok" => done = Len(source_data)
                /\ Len(translated) = done
                /\ \A i \in 1..done :
                      translated[i] =
                          DecodeHtml(responses[RequestFor(source_data[i])].body[1]))
    /\ [][call_state # "err"]_vars

\* a b a b went through the keyless loop: two requests, a then b, and four
\* translations in the input's order
C30_Witness ==
    /\ call_state = "ok"
    /\ key_url.url = "web_url"
    /\ source_data = << <<"a">>, <<"b">>, <<"a">>, <<"b">> >>
    /\ requests = << << <<"a">> >>, << <<"b">> >> >>
    /\ translated = [i \in 1..4 |-> Translation(Lang, source_data[i])]

\* input position of item i of request c
InputPos(c, i) == (c - 1) * ChunkSize + i

\* C28: every request carries at most ChunkSize (120) strings, the requests
\* carry the input's items in input order, and within each request a string
\* is sent in full at its first position of that chunk only: a string that
\* occurs in two chunks is sent in full once in each of them.
C28_Chunking ==
    /\ \A c \in 1..Len(requests) :
          /\ Len(requests[c]) <= ChunkSize
          /\ Len(requests[c]) >= 1
          /\ c < Len(requests) => Len(requests[c]) = ChunkSize
          /\ InputPos(c, Len(requests[c])) <= Len(source_data)
          /\ \A i \in 1..Len(requests[c]) :
                LET q == source_data[InputPos(c, i)]
                    repeated == \E j \in 1..(i - 1) :
                                   source_data[InputPos(c, j)] = q
                IN requests[c][i] = IF repeated THEN EmptyStr ELSE q
    /\ call_state = "ok" =>
          Len(source_data) = IF requests = <<>> THEN 0
                             ELSE InputPos(Len(requests),
                                           Len(requests[Len(requests)]))

\* a b a a went out as two requests: a and b, then a in full again and ""
\* for its repetition
C28_Witness ==
    /\ call_state = "ok"
    /\ source_data = << <<"a">>, <<"b">>, <<"a">>, <<"a">> >>
    /\ requests = << << <<"a">>, <<"b">> >>, << <<"a">>, EmptyStr >> >>

\* the provider's result is empty or whitespace-only once decoded
Blank(v) == Trim(DecodeHtml(v)) = EmptyStr

\* C29: with one result per item, a position whose result is blank holds in
\* the output the decoded translation returned for the first occurrence of
\* its string in the chunk when it is a later occurrence, and the empty
\* string when it is the first occurrence itself; one output item is
\* produced per position and the call does not fail.
C29_Placeholder ==
    AllBodiesExact
    => /\ call_state # "err"
       /\ Len(translated) =
             IF responses = <<>> THEN 0
             ELSE InputPos(Len(responses), Len(responses[Len(responses)].body))
       /\ \A c \in 1..Len(responses) :
             \A i \in 1..Len(responses[c].body) :
                LET body  == responses[c].body
                    q     == source_data[InputPos(c, i)]
                    first == CHOOSE j \in 1..i :
                                /\ source_data[InputPos(c, j)] = q
                                /\ \A k \in 1..(j - 1) :
                                      source_data[InputPos(c, k)] # q
                IN Blank(body[i]) =>
                      translated[InputPos(c, i)] =
                          IF first < i THEN DecodeHtml(body[first])
                          ELSE EmptyStr

\* a a was sent as a and ""; the provider answered " fr a" and " ", and the
\* second position holds the decoded answer to the first
C29_Witness ==
    /\ call_state = "ok"
    /\ source_data = << <<"a">>, <<"a">> >>
    /\ responses = << [ok |-> TRUE,
                       body |-> << <<WS>> \o Translation(Lang, <<"a">>),
                                   <<WS>> >>] >>
    /\ translated = << Translation(Lang, <<"a">>),
                       <<WS>> \o Translation(Lang, <<"a">>) >>

-----------------------------------------------------------------------------
(* Properties of a burst of calls through one limiter (SpecBurst) *)

\* the number N of calls the caller issues
Issued == todo[1] + Len(performed)

\* the calls performed so far are calls 1, 2, ... of the caller, in the order
\* issued and with none left out
PerformedInOrder ==
    \A i \in 1..Len(performed) :
        performed[i].caller = 1 /\ performed[i].no = i

\* C9 as stated: with N > max_burst calls in immediate succession, call
\* number N - max_burst + 1 waits before it proceeds, and the calls are
\* performed in the order issued.
C9_WaitAtNMinusBurst ==
    Issued > MaxBurst =>
        /\ PerformedInOrder
        /\ \A i \in 1..Len(performed) :
              performed[i].no = Issued - MaxBurst + 1 => performed[i].waited > 0

\* the first max_burst calls proceed without a wait and call max_burst + 1
\* observes a nonzero wait
WaitAtBurstPlusOne ==
    \A i \in 1..Len(performed) :
        /\ performed[i].no <= MaxBurst => performed[i].waited = 0
        /\ performed[i].no = MaxBurst + 1 => performed[i].waited > 0

\* C9 (amended): with N > max_burst calls in immediate succession, call
\* number max_burst + 1 is the first to observe a nonzero wait; no call is
\* dropped or reordered: the number of calls issued never changes, they are
\* performed in the order issued, and all N are eventually performed.
C9_WaitAtBurstPlusOne ==
    /\ [](Issued > MaxBurst => PerformedInOrder /\ WaitAtBurstPlusOne)
    /\ [][Issued' = Issued]_vars
    /\ <>(todo[1] = 0 /\ pc[1] = "done")

\* a burst longer than the bucket has been performed to the end, and call
\* max_burst + 1 has waited
C9_Witness ==
    /\ Issued > MaxBurst
    /\ todo[1] = 0
    /\ Len(performed) = Issued
    /\ performed[MaxBurst + 1].waited > 0

-----------------------------------------------------------------------------
(* Properties of histories of runs (Spec) *)

\* the run returned Ok(())
ReturnedOk(result) == result \in {"empty", "skip", "done"}

\* the texts of a source locale file (without the reserved _version key)
SourceTexts(f) == {f.val[k] : k \in DOMAIN f.val \ {"_version"}}

\* C1: when translate runs twice in succession on the same source file
\* content with the same target set, the first run returning Ok, the second
\* run sends no request to the provider.
C1_Idempotent ==
    (/\ runs >= 2
     /\ ReturnedOk(prev.result)
     /\ prev.src = obs.src
     /\ prev.targets = Range(config.targets))
    => obs.nreq = 0

\* C2: what the persisted cache held for (t, s) at the end of a cache-enabled
\* run is not sent again by a following cache-enabled run whose source still
\* holds s and whose targets still hold t.
C2_CacheSound ==
    (runs >= 2 /\ prev.use_cache /\ ReturnedOk(prev.result) /\ config.use_cache)
    => \A t \in Range(config.targets) \cap prev.targets \cap DOMAIN prev.cache :
         \A q \in DOMAIN prev.cache[t] \cap SourceTexts(obs.src) :
             <<t, q>> \notin obs.sent

\* v is a translation of text q into language t
IsTranslationOf(v, t, q) == Trim(DecodeHtml(v)) = Translation(t, q)

\* the locale file of target t holds a translation of every key of source
\* file f and nothing else
UpToDate(d, t, f) ==
    LET file == d[<<t, "json">>]
        keys == DOMAIN f.val \ {"_version"}
    IN /\ ParsesKv(file)
       /\ DOMAIN file.val = keys
       /\ \A k \in keys : IsTranslationOf(file.val[k], t, f.val[k])

\* C6: when a run with a non-empty target set takes the Skip branch, every
\* configured target's locale file holds, for every source key, a
\* translation of the current source content.
C6_SkipMeansUpToDate ==
    (obs.result = "skip" /\ run_pc = "idle" /\ dir[SourceName] = obs.src)
    => \A t \in Range(config.targets) : UpToDate(dir, t, obs.src)

\* C8: a run that reaches Done has persisted the cache, and the persisted
\* checksum is the hash of the source file's current content.
C8_DonePersistsChecksum ==
    obs.result = "done"
    => /\ ParsesAutogen(cache_file)
       /\ cache_file.val.sha256 = Some(Sha256(obs.src))

-----------------------------------------------------------------------------
(* Properties of one run from any directory and cache (SpecOneRun) *)

\* verify_locales, Autogen::load and the gate have run, and nothing since
AfterGate ==
    \/ obs.result \in {"empty", "skip", "nosource"}
    \/ obs.result = "running" /\ tix = 1

\* the data of the cache as the file on disk gives it
PersistedData(f) == IF ParsesAutogen(f) THEN f.val.data ELSE EmptyMap

\* the files of the run's first directory listing that are neither the
\* source file nor {t}.{ext} of a configured target
Unconfigured ==
    {n \in obs.files :
        /\ n # SourceName
        /\ ~(n[2] = SourceName[2] /\ n[1] \in Range(config.targets))}

\* some configured target had no file in the run's first directory listing
TargetMissing ==
    \E t \in Range(config.targets) : <<t, SourceName[2]>> \notin obs.files

\* C4: after verify_locales has run on a directory with a source file, every
\* file that is neither the source file nor {t}.{ext} of a configured target
\* is deleted and its language has no entry in the persisted cache; and when
\* a configured target has no file the run goes on to translate, whatever
\* the checksum comparison says.
C4_Reconciled ==
    (AfterGate /\ obs.src.there)
    => /\ \A n \in Unconfigured :
             /\ ~dir[n].there
             /\ n[1] \notin DOMAIN PersistedData(cache_file)
       /\ TargetMissing => obs.entered /\ obs.result = "running"

\* de.json is on disk and "de" is in the cache, the targets are [fr] and
\* fr.json is missing: de.json is gone and the run translates
C4_Witness ==
    /\ AfterGate
    /\ obs.src.there
    /\ config.targets = <<"fr">>
    /\ <<"de", "json">> \in obs.files
    /\ "de" \in DOMAIN prev.cache
    /\ <<"fr", "json">> \notin obs.files
    /\ ~dir[<<"de", "json">>].there
    /\ obs.entered

\* the texts the adapter may hand back for an answer v of the provider
Accepted(v) == {v, Trim(DecodeHtml(v))}

\* the provider answered every request of the run with one translation per
\* requested string
OnePerString == obs.modes # {} /\ obs.modes \subseteq {"plain", "padded"}

\* C5: in a cache-enabled run that starts from an empty cache, with a
\* provider returning one translation per requested string, each written map
\* has exactly the source keys without _version, maps every key k to the
\* provider's translation of source[k], and the cache at the end of the run
\* holds that same translation under source[k].
C5_EndToEnd ==
    (/\ obs.result = "done"
     /\ config.use_cache
     /\ obs.loaded_empty
     /\ OnePerString)
    => \A t \in Range(config.targets) :
         /\ t \in DOMAIN obs.kv
         /\ t \in DOMAIN autogen.data
         /\ DOMAIN obs.kv[t] = DOMAIN obs.src.val \ {"_version"}
         /\ \A k \in DOMAIN obs.kv[t] :
               LET s == obs.src.val[k]
               IN /\ \E m \in obs.modes :
                        obs.kv[t][k] \in Accepted(ReplyIn(m, t, <<s>>).body[1])
                  /\ s \in DOMAIN autogen.data[t]
                  /\ autogen.data[t][s] = obs.kv[t][k]

\* the source file's hash differs from the checksum the run loaded, or no
\* checksum is stored
ChecksumDiffers == obs.src.there /\ obs.stored # Some(Sha256(obs.src))

\* C7: a run with a non-empty target set enters the translating branch
\* exactly when the source file's hash differs from the stored checksum (or
\* none is stored) or verify_locales reports a mismatch; otherwise it returns
\* Ok with no provider call made and no locale file written.
C7_ChecksumGate ==
    (obs.result # "none" /\ config.targets # <<>>)
    => /\ obs.entered <=> (ChecksumDiffers \/ obs.verify # "ok")
       /\ ~obs.entered =>
             /\ obs.result = "skip"
             /\ run_pc = "idle"
             /\ obs.nreq = 0
             /\ obs.kv = EmptyMap

\* a run with targets whose files are all there and whose stored checksum is
\* the source file's hash has taken the Skip branch
C7_Witness ==
    /\ config.targets # <<>>
    /\ obs.src.there
    /\ obs.stored = Some(Sha256(obs.src))
    /\ obs.verify = "ok"
    /\ obs.result = "skip"

\* C10: the rate-limited provider calls of one run, across all target
\* languages and chunks, go through one limiter (one token bucket for the
\* whole run).
C10_OneBucketPerRun == obs.limiters <= 1

\* the position of the target language the loop stopped at
FailedAt == tix

\* C14: when a provider call for target t_i fails, translate returns the
\* error at once: the failed request is the last request of the run (no
\* further call, no retry), and no locale file is written for t_i or for any
\* later target.
C14_FailFast ==
    obs.result = "err" =>
        /\ run_pc = "idle"
        /\ obs.calls # <<>>
        /\ \A i \in 1..Len(obs.calls) :
              /\ obs.calls[i].ok <=> i < Len(obs.calls)
              /\ \E j \in 1..FailedAt : obs.calls[i].t = config.targets[j]
        /\ obs.calls[Len(obs.calls)].t = config.targets[FailedAt]
        /\ \A j \in FailedAt..Len(config.targets) :
              config.targets[j] \notin DOMAIN obs.kv

\* with targets [fr, de], fr was written, then the second request for de
\* failed after the first was answered
C14_Witness ==
    /\ obs.result = "err"
    /\ config.targets = <<"fr", "de">>
    /\ "fr" \in DOMAIN obs.kv
    /\ Len(obs.calls) >= 2
    /\ obs.calls[Len(obs.calls) - 1] = [t |-> "de", ok |-> TRUE]
    /\ obs.calls[Len(obs.calls)] = [t |-> "de", ok |-> FALSE]

\* the texts requested and the translations returned for target t differ in
\* number in observation o
Mismatch(o, t) == t \in DOMAIN o.counts /\ o.counts[t][1] # o.counts[t][2]

\* C15: when the number of translations returned for target t differs from
\* the number requested, that step writes no file for t and leaves the cache
\* (t's sub-map included) as it was, and the run goes on to the next target;
\* a run ends in an error only at a failed provider call, so it still
\* returns Ok.
C15_CountMismatch ==
    /\ [][(run_pc = "loop" /\ tix <= Len(config.targets)
           /\ Mismatch(obs', config.targets[tix]))
          => /\ dir' = dir
             /\ autogen' = autogen
             /\ config.targets[tix] \notin DOMAIN obs'.kv
             /\ tix' = tix + 1
             /\ run_pc' = "loop"
             /\ obs'.result = "running"]_vars
    /\ [](obs.result = "err" =>
             obs.calls # <<>> /\ ~obs.calls[Len(obs.calls)].ok)

\* with targets [fr, de] and a cache entry for fr, fr came back one
\* translation short and was skipped, de was written, and the run is Done
C15_Witness ==
    /\ obs.result = "done"
    /\ config.targets = <<"fr", "de">>
    /\ config.use_cache
    /\ Mismatch(obs, "fr")
    /\ "fr" \in DOMAIN autogen.data
    /\ "fr" \notin DOMAIN obs.kv
    /\ "de" \in DOMAIN obs.kv

\* the keys of the run's source file that are translated
SourceKeys == DOMAIN obs.src.val \ {"_version"}

\* the texts cached for target t in cache data d
CachedTexts(d, t) == IF t \in DOMAIN d THEN DOMAIN d[t] ELSE {}

\* the texts sent to the provider for target t according to observation o
SentFor(o, t) == {q \in Texts : <<t, q>> \in o.sent}

\* the last key, in iteration order, whose source text is q
LastKeyOf(q) ==
    LET ks == {i \in 1..Len(KeyOrder) :
                  KeyOrder[i] \in SourceKeys /\ obs.src.val[KeyOrder[i]] = q}
    IN KeyOrder[CHOOSE i \in ks : \A j \in ks : j <= i]

\* C16: with use_cache true, the texts passed to the provider for target t
\* are exactly the source values without an entry in cache[t] (a cache hit
\* is never sent; when the call fails midway, those sent so far), and the
\* cache afterwards is keyed by source text: keys with the same text share
\* the one entry, which holds the translation of the last of them, and the
\* entries that were hits are unchanged.
C16_CachePartition ==
    [][(run_pc = "loop" /\ tix <= Len(config.targets) /\ config.use_cache)
       => LET t == config.targets[tix]
              hits == CachedTexts(autogen.data, t)
              misses == {obs.src.val[k] : k \in SourceKeys} \ hits
          IN /\ SentFor(obs', t) \subseteq misses
             /\ t \in DOMAIN obs'.counts =>
                   /\ SentFor(obs', t) = misses
                   /\ obs'.counts[t][1] =
                         Cardinality({k \in SourceKeys :
                                         obs.src.val[k] \in misses})
             /\ t \in DOMAIN obs'.kv =>
                   /\ \A q \in hits : autogen'.data[t][q] = autogen.data[t][q]
                   /\ \A q \in misses :
                         /\ q \in DOMAIN autogen'.data[t]
                         /\ autogen'.data[t][q] = obs'.kv[t][LastKeyOf(q)]
                   /\ CachedTexts(autogen'.data, t) = hits \cup misses]_vars

\* the cache held fr -> {a}, the source holds a and b: only b was sent for
\* fr, the key with text a was written from the cache, and b is now cached
C16_Witness ==
    /\ obs.result = "done"
    /\ config.use_cache
    /\ config.targets = <<"fr">>
    /\ obs.sent = {<<"fr", <<"b">>>>}
    /\ "fr" \in DOMAIN obs.kv
    /\ obs.kv["fr"]["k1"] = <<"fr", "a">>
    /\ DOMAIN autogen.data["fr"] = {<<"a">>, <<"b">>}

\* the translations of text q into t that the provider gave in one of the
\* modes it answered in, as an adapter may hand them back
ProviderGave(o, t, q) ==
    UNION {Accepted(ReplyTo(m, 1, t, <<q>>).body[1]) :
              m \in o.modes \cap {"plain", "padded", "late"}}

\* C17: with use_cache false, for every target the full list of source
\* values is passed to the provider, what is written comes from the
\* provider's answer and not from the cache, and the cache's data map stays
\* as loaded for the whole run.
C17_CacheDisabled ==
    [][(run_pc = "loop" /\ ~config.use_cache)
       => /\ autogen'.data = autogen.data
          /\ tix <= Len(config.targets) =>
                LET t == config.targets[tix]
                IN /\ t \in DOMAIN obs'.counts =>
                         /\ obs'.counts[t][1] = Cardinality(SourceKeys)
                         /\ SentFor(obs', t) =
                               {obs.src.val[k] : k \in SourceKeys}
                   /\ t \in DOMAIN obs'.kv =>
                         \A k \in SourceKeys :
                            obs'.kv[t][k] \in ProviderGave(obs', t, obs.src.val[k])]_vars

\* the cache holds fr -> {a: old, b: old}; with use_cache false the text a
\* was sent for fr all the same, the provider's translation was written, and
\* the cache still holds the old entries at Done
C17_Witness ==
    /\ obs.result = "done"
    /\ ~config.use_cache
    /\ config.targets = <<"fr">>
    /\ <<"fr", <<"a">>>> \in obs.sent
    /\ "fr" \in DOMAIN obs.kv
    /\ obs.kv["fr"]["k1"] = <<"fr", "a">>
    /\ "fr" \in DOMAIN autogen.data
    /\ autogen.data["fr"][<<"a">>] = <<"old">>

\* C18: a run with an empty target list makes no provider call, leaves the
\* checksum as loaded, clears the data map of the cache and of what the
\* cache file yields when loaded, and returns Ok.
C18_EmptyTargets ==
    (run_pc = "idle" /\ obs.result # "none" /\ config.targets = <<>>)
    => /\ obs.result = "empty"
       /\ ReturnedOk(obs.result)
       /\ obs.nreq = 0 /\ obs.sent = {} /\ obs.calls = <<>>
       /\ ~obs.entered
       /\ autogen.sha256 = obs.stored
       /\ autogen.data = EmptyMap
       /\ cache_file.there
       /\ PersistedData(cache_file) = EmptyMap
       /\ ParsesAutogen(cache_file) => cache_file.val = autogen

\* a cache with a checksum and translations was loaded, and the run with no
\* targets cleared its data and kept its checksum
C18_Witness ==
    /\ obs.result = "empty"
    /\ config.targets = <<>>
    /\ obs.stored.some
    /\ autogen = [sha256 |-> obs.stored, data |-> EmptyMap]
    /\ cache_file.len > SizeAutogen(autogen)

\* what the bytes of the cache file stand for: the cache they serialize when
\* they are exactly one serialization, nothing otherwise
WellFormed(f) == f.there /\ f.len = SizeAutogen(f.val)

\* C19: Autogen::load gives a cache for every state of the cache file: the
\* stored cache when the file is well-formed, the default cache (no
\* checksum, no data) when it is missing, empty or malformed.  Observed on
\* the runs in which verify_locales removed nothing, so that the file loaded
\* is the file the run started with.
C19_LoadNeverFatal ==
    [][(run_pc = "idle" /\ obs'.result # obs.result /\ dir' = dir)
       => LET expected == IF WellFormed(cache_file) THEN cache_file.val
                          ELSE DefaultAutogen
          IN /\ obs'.stored = expected.sha256
             /\ obs'.loaded_empty = (expected = DefaultAutogen)
             /\ obs'.result # "empty" => autogen'.data = expected.data
             /\ cache_file'.there]_vars

\* the cache file held bytes that are no serialization of a cache; the run
\* went on from the default cache and entered translating
C19_Witness ==
    /\ obs.result = "running"
    /\ tix = 1
    /\ cache_file.len = 40
    /\ obs.loaded_empty
    /\ ~obs.stored.some
    /\ autogen.data = EmptyMap

-----------------------------------------------------------------------------
(* Properties of one run with a language the provider may not list         *)
(* (SpecLocales)                                                            *)

\* C21: when the tag of the target in turn fails normalization for the
\* selected provider, translate_data returns the error with no request
\* issued and the run ends with that error, nothing written, also when every
\* source text is cached for that target.
C21_UnsupportedAborts ==
    [][(run_pc = "loop" /\ tix <= Len(config.targets)
           /\ config.targets[tix] = OtherLang)
       => /\ obs'.result = "err"
          /\ obs'.error = "unsupported"
          /\ obs'.nreq = obs.nreq
          /\ obs'.sent = obs.sent
          /\ obs'.calls = obs.calls
          /\ run_pc' = "idle"
          /\ dir' = dir
          /\ cache_file' = cache_file]_vars

\* fr and then the unlisted language were configured with the cache on, every
\* source text was cached for both, and the run ended with the
\* normalization error without a single request
C21_Witness ==
    /\ obs.result = "err"
    /\ obs.error = "unsupported"
    /\ config.targets = <<"fr", OtherLang>>
    /\ config.use_cache
    /\ tix = 2
    /\ obs.nreq = 0
    /\ "fr" \in DOMAIN obs.kv
    /\ OtherLang \in DOMAIN autogen.data
    /\ \A k \in DOMAIN src_map : src_map[k] \in DOMAIN autogen.data[OtherLang]

\* C22: a run with targets that finds no source locale file returns the
\* error "Could not find source locale data", with no provider call made and
\* no file of the directory written or removed; and it returns that error in
\* no other case.
C22_SourceMissing ==
    /\ [][(run_pc = "idle" /\ ~dir[SourceName].there /\ config'.targets # <<>>)
          => /\ obs'.result = "nosource"
             /\ ~ReturnedOk(obs'.result)
             /\ obs'.nreq = 0 /\ obs'.sent = {} /\ obs'.kv = EmptyMap
             /\ run_pc' = "idle"
             /\ dir' = dir]_vars
    /\ [](obs.result = "nosource" => ~obs.src.there /\ obs.entered)

\* fr was configured, fr.json and de.yml were in the directory but en.json
\* was not: the run ended with the error and both files are as they were
C22_Witness ==
    /\ obs.result = "nosource"
    /\ config.targets = <<"fr">>
    /\ dir[<<"fr", "json">>] = OldLocaleFile
    /\ dir[<<"de", "yml">>] = OldLocaleFile
    /\ obs.nreq = 0

\* what the change detector is to return for the source file f and the
\* stored checksum
Detected(f, stored) ==
    IF f.there /\ stored # Some(Sha256(f)) THEN Some(Sha256(f)) ELSE None

\* C23: match_sha256 returns the new hash exactly when the source file is
\* found and its hash differs from the stored checksum, an absent checksum
\* counting as different, and None when the hashes are equal or no source
\* file is found.  Seen through the gate: a run that enters holds the
\* detector's result as its checksum, a run that is skipped had None.
C23_ChangeDetector ==
    /\ obs.entered => autogen.sha256 = Detected(obs.src, obs.stored)
    /\ obs.result = "skip" => Detected(obs.src, obs.stored) = None
    /\ (obs.result \notin {"none", "empty"} /\ Detected(obs.src, obs.stored).some)
          => obs.entered

\* no checksum was stored, every target file was in place, and the run
\* entered with the hash of the source file as its new checksum
C23_Witness ==
    /\ obs.result = "running"
    /\ ~obs.stored.some
    /\ obs.verify = "ok"
    /\ autogen.sha256 = Some(Sha256(obs.src))

\* C24: after write_locale_file returned Ok for target t, the file
\* {t}.{ext of the source file} is there and its whole content is the
\* serialization of the map that was passed, whether the file was created
\* or an existing file of any length was written over.
C24_WholeContent ==
    \A t \in DOMAIN obs.kv :
        LET f == dir[<<t, SourceName[2]>>]
        IN /\ f.there
           /\ f.len = SizeKv(obs.kv[t])
           /\ f.val = obs.kv[t]

-----------------------------------------------------------------------------
(* Properties of the cache file in one run (SpecOneRun) *)

\* the cache a prior well-formed file holds for the languages kept by the
\* reconciliation of the step
KeptOf(f, d, targets) ==
    LET gone == {n[1] : n \in StaleFiles(d, SourceName, targets)}
    IN [f.val EXCEPT !.data = [l \in DOMAIN @ \ gone |-> @[l]]]

\* C32: whatever the cache file held before, the cache written by
\* update_autogen_cache is the cache the next load_autogen returns: after
\* the write at the end of a run and after the write of the empty-target
\* exit the file loads to the run's cache, and when verify_locales prunes
\* the languages of removed files from a well-formed cache file, the load
\* that follows returns the pruned cache and not the default one.
C32_RoundTrip ==
    /\ [](obs.result \in {"done", "empty"}
             => LoadAutogen(cache_file).autogen = autogen)
    /\ [][/\ runs' # runs
           /\ ParsesAutogen(cache_file)
           /\ dir[SourceName].there
           /\ config'.targets # <<>>
           => /\ obs'.stored = cache_file.val.sha256
              /\ autogen'.data =
                    KeptOf(cache_file, dir, Range(config'.targets)).data]_vars

-----------------------------------------------------------------------------
(* Properties of one run with bodies of any length (SpecShifted) *)

\* the keys of the source whose text was sent to the provider for target t
TranslatedKeys(t) ==
    {k \in SourceKeys : <<t, obs.src.val[k]>> \in obs.sent}

\* C33: whenever a result is accepted for target t and its map written, the
\* value written for every key whose text went to the provider, and with
\* the cache in use the value stored in the cache under that text, is the
\* provider's answer to the request item that carried the text (up to
\* surrounding whitespace), whatever the lengths of the bodies were.
C33_Aligned ==
    \A t \in DOMAIN obs.kv : \A k \in TranslatedKeys(t) :
        LET s == obs.src.val[k]
        IN /\ IsTranslationOf(obs.kv[t][k], t, s)
           /\ config.use_cache =>
                 /\ t \in DOMAIN autogen.data
                 /\ s \in DOMAIN autogen.data[t]
                 /\ IsTranslationOf(autogen.data[t][s], t, s)

-----------------------------------------------------------------------------
(* Properties of verify_locales in one run (SpecOneRun) *)

\* the languages whose entry verify_locales takes out of the cache: the
\* stems of the files it removes
PrunedStems(d, targets) == {n[1] : n \in StaleFiles(d, SourceName, targets)}

\* C35: the first step of a run, which calls verify_locales, leaves the
\* source file and every file {t}.{ext} of a configured target t as they
\* were, takes no configured target's entry out of the cache, and with no
\* source file in the directory leaves every file in place.
C35_ReconcileFrame ==
    [][runs' # runs =>
         LET targets == Range(config'.targets)
         IN /\ dir'[SourceName] = dir[SourceName]
            /\ \A t \in targets :
                  dir[SourceName].there =>
                     dir'[<<t, SourceName[2]>>] = dir[<<t, SourceName[2]>>]
            /\ dir[SourceName].there =>
                  PrunedStems(dir, targets) \cap targets = {}
            /\ ~dir[SourceName].there => dir' = dir]_vars

-----------------------------------------------------------------------------
(* Properties of a run that follows an aborted run (SpecRetry) *)

\* the run before the current one was aborted by translate_data's Err
PrevAborted == prev.result = "err"

\* the current run works on the source content and the target set of the
\* run before it
SameAsPrev ==
    /\ obs.src = prev.src
    /\ Range(config.targets) = prev.targets

\* C34: the step that aborts a run on a provider or normalization error
\* leaves the cache file as the run's first step left it, and so does every
\* step until the next run starts; a following run on the same source
\* content and target set passes the gate and is not answered with Skip.
C34_FailedNotRecorded ==
    /\ [][obs'.result = "err" /\ runs' = runs
           => cache_file' = cache_file]_vars
    /\ [](PrevAborted /\ SameAsPrev =>
             obs.entered /\ obs.result \in {"running", "done", "err"})

-----------------------------------------------------------------------------
(* Properties of threads sharing one limiter while time passes (SpecTimed) *)

\* C26: in every reachable state of the limiter, under any interleaving of
\* the callers and any passage of time, 0 <= tokens <= max_burst.
C26_TokenRange ==
    /\ 0 <= bucket.tokens
    /\ bucket.tokens <= MaxBurst * TokenUnit

\* two calls emptied the bucket at second 0, seven seconds passed, and the
\* third call found the bucket refilled to max_burst and no further
C26_Witness ==
    /\ Len(performed) = MaxBurst
    /\ \E c \in Callers : pc[c] = "call"
    /\ bucket.last_update = 7
    /\ bucket.tokens = (MaxBurst - 1) * TokenUnit

\* the calls that have started: f() has run or is about to run
Started == Len(performed) + Cardinality({c \in Callers : pc[c] = "call"})

\* C27: a call starts only after a whole token was deducted for it, tokens
\* are added only inside the loop of run(), for the time elapsed since the
\* last refill, and so by second d after the limiter was created at most
\* max_burst + d * tokens_per_sec calls have started.
C27_TokenBound ==
    /\ [](bucket.tokens + TokenUnit * Started
             <= MaxBurst * TokenUnit + bucket.last_update)
    /\ [](TokenUnit * Started <= MaxBurst * TokenUnit + now)
    /\ [](bucket.last_update <= now)
    /\ [][bucket' # bucket
          => \E c \in Callers :
                /\ pc[c] = "loop" /\ lock = c
                /\ bucket'.last_update = now
                /\ LET full == bucket.tokens + (now - bucket.last_update)
                       had  == IF full <= MaxBurst * TokenUnit
                               THEN full ELSE MaxBurst * TokenUnit
                   IN \/ bucket'.tokens = had /\ pc'[c] = "sleep"
                      \/ /\ bucket'.tokens = had - TokenUnit
                         /\ had >= TokenUnit
                         /\ pc'[c] = "call"]_vars
    /\ [][\A c \in Callers :
             (pc[c] # "call" /\ pc'[c] = "call")
                => bucket'.tokens <= bucket.tokens + (now - bucket.last_update)
                                        - TokenUnit]_vars

\* the burst was used up at second 0 and the third call started at second
\* 3, when the bound max_burst + 3 / 3 allows exactly three calls
C27_Witness ==
    /\ Started = MaxBurst + 1
    /\ now = TokenUnit
    /\ bucket = [tokens |-> 0, last_update |-> TokenUnit]

-----------------------------------------------------------------------------
(* Properties of a run that goes on while its calls return (SpecFair) *)

\* the run has returned
Returned == runs = MaxRuns /\ run_pc = "idle"

\* the outcome of a run, by what it returned: Ok(()) from the empty-target
\* exit or the "Already on latest" arm, Ok(()) after the loop, or Err
Outcome(result) ==
    CASE result \in {"empty", "skip"} -> "Skip"
      [] result = "done" -> "Done"
      [] result \in {"err", "nosource"} -> "Error"
      [] OTHER -> "none"

\* the steps of a run follow the order of the state machine: the checks of
\* the first step reach Skip, Error or Translating without any request or
\* locale write; locale files are written only while translating, for the
\* target in turn; Done is reached from Translating only, after the last
\* target, by the step that writes the cache file; nothing follows the
\* return
RunOrder ==
    /\ runs' # runs =>
          /\ obs'.result \in {"empty", "skip", "nosource", "running"}
          /\ obs'.nreq = 0 /\ obs'.kv = EmptyMap
          /\ run_pc' = "loop" <=> obs'.result = "running"
    /\ runs' = runs /\ obs' # obs =>
          /\ obs.result = "running"
          /\ obs'.result \in {"running", "err", "done"}
    /\ runs' = runs /\ dir' # dir =>
          /\ obs.result = "running" /\ obs'.result = "running"
          /\ tix <= Len(config.targets) /\ tix' = tix + 1
          /\ \A n \in FileNames : dir'[n] # dir[n] => n[1] = config.targets[tix]
    /\ obs'.result = "done" /\ obs.result # "done" =>
          /\ tix > Len(config.targets)
          /\ cache_file' = UpdateAutogenCache(cache_file, autogen)
    /\ Returned => UNCHANGED runVars

\* a caller that has slept once in its call takes the token at its next pass
OneWait ==
    \A c \in Callers : pc[c] = "loop" /\ cur[c].waited > 0 => pc'[c] # "sleep"

\* C31: every run whose calls return ends in exactly one of Skip (Ok, no
\* request made and no locale file written), Done (Ok after the loop over
\* the targets) or Error, and stays there; its steps go from the checks to
\* Skip, Error or Translating, from Translating through the writes to Done;
\* and a single caller that finds no token sleeps once for the computed
\* wait and then proceeds to its call.
C31_Termination ==
    /\ <>[](Returned /\ Outcome(obs.result) \in {"Skip", "Done", "Error"})
    /\ [](Outcome(obs.result) = "Skip" =>
             ~obs.entered /\ obs.nreq = 0 /\ obs.kv = EmptyMap)
    /\ [](Outcome(obs.result) = "Done" =>
             obs.entered /\ tix > Len(config.targets))
    /\ [][RunOrder]_vars
    /\ [][OneWait]_vars
    /\ (pc[1] = "sleep") ~> (pc[1] = "call")

\* a run has translated, written a locale file and returned Ok, and the
\* caller has ended a burst in which a call slept for a token
C31_Witness ==
    /\ Returned
    /\ obs.result = "done"
    /\ obs.nreq > 0
    /\ obs.kv # EmptyMap
    /\ pc[1] = "done"
    /\ \E i \in 1..Len(performed) : performed[i].waited > 0

-----------------------------------------------------------------------------
(* Properties of threads sharing one limiter (SpecShared) *)

\* caller c has taken its token and has not yet finished its provider call
InCall(c) == pc[c] = "call"

\* C11: with several threads calling through the same limiter, at most one
\* caller at a time is between deducting its token and finishing its
\* provider call, and that caller holds the mutex (as does a caller at the
\* token check).
C11_MutualExclusion ==
    /\ \A c, d \in Callers : InCall(c) /\ InCall(d) => c = d
    /\ \A c \in Callers : pc[c] \in {"loop", "call"} => lock = c

\* one caller is in its provider call while another, back from its sleep,
\* is waiting for the mutex
C11_Witness ==
    \E c, d \in Callers :
        /\ c # d
        /\ InCall(c)
        /\ lock = c
        /\ pc[d] = "relock"

\* every caller has performed all its calls
AllDone == \A c \in Callers : pc[c] = "done"

\* C38: a caller that waits for a token does not hold the mutex: the lock
\* is released by the step that starts the sleep and taken again only after
\* the sleep, by the step that brings the caller back to the token check;
\* and whatever the callers sharing the limiter do, as long as one of them
\* has a call left some step is possible.
C38_SleepUnlocked ==
    /\ [](\A c \in Callers : pc[c] \in {"sleep", "relock"} => lock # c)
    /\ [][\A c \in Callers :
            /\ pc[c] = "loop" /\ pc'[c] = "sleep" => lock = c /\ lock' = NoOne
            /\ pc[c] = "sleep" /\ pc'[c] # "sleep" => pc'[c] = "relock"
            /\ pc[c] = "relock" /\ pc'[c] # "relock" =>
                  pc'[c] = "loop" /\ lock = NoOne /\ lock' = c]_vars
    /\ [](~AllDone => ENABLED NextShared)

\* while one caller sleeps for a token, the other has refilled the bucket
\* and taken the token that the elapsed time brought
C38_Witness ==
    \E c, d \in Callers :
        /\ c # d
        /\ pc[c] = "sleep"
        /\ pc[d] = "call"
        /\ lock = d
        /\ bucket.last_update > 0

-----------------------------------------------------------------------------
(* Properties of one normalize_lang call (SpecLang) *)

\* the tag in the letter case of the provider's allow-list, as DeepL's
\* entry point hands it on
GivenTag ==
    IF lang_provider = "DEEPL" THEN ToUppercase(lang_code) ELSE lang_code

\* the primary subtag: the longest prefix of w without a '-'
Primary(w) ==
    LET k == CHOOSE n \in 0..Len(w) :
                 /\ \A j \in 1..n : w[j] # "-"
                 /\ n < Len(w) => w[n + 1] = "-"
    IN SubSeq(w, 1, k)

\* the positions of the allow-list codes that contain the primary subtag
Matching(codes, w) ==
    {i \in 1..Len(codes) :
        \E a, b \in 0..Len(codes[i]) :
            a <= b /\ SubSeq(codes[i], a + 1, b) = Primary(w)}

\* C12: normalize_lang returns the tag itself when it is in the provider's
\* allow-list; otherwise the first allow-list code, in list order, that
\* contains the tag's primary subtag as a substring; otherwise it fails.
\* Every successful result is a member of the allow-list.
C12_Normalization ==
    lang_state = "returned" =>
        LET codes == CodesOf(lang_provider)
            inlist == \E i \in 1..Len(codes) : codes[i] = GivenTag
            hits == Matching(codes, GivenTag)
        IN /\ inlist => lang_result = Supported(GivenTag)
           /\ (~inlist /\ hits # {}) =>
                 /\ lang_result.ok
                 /\ \E i \in hits : /\ lang_result.code = codes[i]
                                    /\ \A j \in hits : i <= j
           /\ (~inlist /\ hits = {}) => lang_result = Unsupported
           /\ lang_result.ok =>
                 \E i \in 1..Len(codes) : codes[i] = lang_result.code

\* DEEPL zh-TW has resolved to ZH, the first code that contains ZH, and not
\* to ZH-HANS or ZH-HANT
C12_Witness ==
    /\ lang_state = "returned"
    /\ lang_provider = "DEEPL"
    /\ lang_code = <<"z", "h", "-", "T", "W">>
    /\ lang_result = Supported(<<"Z", "H">>)

\* the tag in the letter case the provider's convention asks for
CaseNormalized(provider, w) ==
    IF provider = "DEEPL" THEN ToUppercase(w) ELSE ToLowercase(w)

\* C13: the exact-match step compares the case-normalized tag (upper case
\* for DeepL, lower case for Google and LibreTranslate) with the allow-list,
\* so tags that differ only in letter case normalize to the same result.
C13_CaseNormalized ==
    lang_state = "returned" =>
        LET codes == CodesOf(lang_provider)
            w == CaseNormalized(lang_provider, lang_code)
        IN /\ (\E i \in 1..Len(codes) : codes[i] = w)
                 => lang_result = Supported(w)
           /\ lang_result = NormalizeLang(lang_provider, ToLowercase(lang_code))
           /\ lang_result = NormalizeLang(lang_provider, ToUppercase(lang_code))

\* C36: a result reached through the substring fallback (the tag itself is
\* not in the allow-list) names the language asked for: its primary subtag
\* is, up to letter case, the primary subtag of the tag passed in.
C36_FallbackKeepsLanguage ==
    (/\ lang_state = "returned"
     /\ lang_result.ok
     /\ ~InList(CodesOf(lang_provider), GivenTag))
    => ToLowercase(Primary(lang_result.code)) = ToLowercase(Primary(lang_code))

\* C37: a code that normalize_lang has returned for a provider is accepted
\* by normalize_lang for that provider and returned as it is.
C37_Idempotent ==
    (lang_state = "returned" /\ lang_result.ok)
    => NormalizeLang(lang_provider, lang_result.code) = lang_result

\* LibreTranslate's zh-TW has resolved through the fallback to zh-Hans, and
\* zh-Hans resolves to itself; DeepL's lower-case tag has resolved to an
\* upper-case code in the same way
C37_Witness ==
    /\ lang_state = "returned"
    /\ \/ /\ lang_provider = "LIBRETRANSLATE"
          /\ lang_code = <<"z", "h", "-", "T", "W">>
          /\ lang_result = Supported(<<"z", "h", "-", "H", "a", "n", "s">>)
       \/ /\ lang_provider = "DEEPL"
          /\ lang_code = <<"e", "n">>
          /\ lang_result = Supported(<<"E", "N">>)
    /\ NormalizeLang(lang_provider, lang_result.code) = lang_result

=============================================================================
